---- MODULE Spec2Model ----
(***************************************************************************)
(* Model of the course study planner component (src/src/course-app.js):    *)
(* the semester list generator, the course store (saveCourse,              *)
(* deleteCourse, assignCourse, unassignCourse), the length-keyed caches of *)
(* the derived aggregates, the local-storage record, init, the imports and *)
(* exports, the translations and the focus trap of the modals.             *)
(*                                                                         *)
(* JavaScript values are encoded as follows.                               *)
(*   - an object is a function on the set of its keys; a missing property  *)
(*     is a key that is not in the DOMAIN;                                 *)
(*   - a nullable reference or number is a sequence of length at most one: *)
(*     <<>> is null and <<v>> is the value v;                              *)
(*   - the nullable string assignedSemester is a string, Null being the    *)
(*     token for null and "" the empty string (both falsy);                *)
(*   - Date.now() is the integer clock now; new Date().toISOString()       *)
(*     names the same instant and is kept as that integer.                 *)
(***************************************************************************)
EXTENDS Integers, Sequences, FiniteSets, TLC

VARIABLES
    settings,           \* this.settings
    semesterList,       \* this.semesterList
    courses,            \* this.courses
    showAddModal,       \* this.showAddModal
    editingCourse,      \* this.editingCourse: <<>> or <<[id |-> id of the referenced course]>>
    newCourse,          \* this.newCourse, the draft
    lastSaved,          \* this.lastSaved: <<>> or <<instant>>
    _cachedUnassigned,  \* <<>> (null) or <<list>>
    _cachedTotal,       \* <<>> (null) or <<sum>>
    _lastCoursesUpdate,
    _lastTotalUpdate,
    lectureStudyPlan,   \* localStorage['lectureStudyPlan']: <<>> (absent) or <<record>>
    storageFull,        \* whether localStorage.setItem throws (quota exceeded)
    now,                \* the clock read by Date.now()
    pc,                 \* where init() stands
    language,           \* this.language
    translations,       \* this.translations: the table t() reads
    localeFetches,      \* the calls of loadTranslations that await their response
    activeElement,      \* document.activeElement
    lastFocusedElement, \* focusTrap.lastFocusedElement: <<>> or <<element>>
    handlers,           \* focusTrap.handlers: the handler stored for a modal element
    listeners,          \* the keydown listeners registered on each modal element
    focusable,          \* how many elements of each modal match focusableSelectors
    last                \* log of the last handler that ran: its name, arguments and outcome

vars == <<settings, semesterList, courses, showAddModal, editingCourse, newCourse,
          lastSaved, _cachedUnassigned, _cachedTotal, _lastCoursesUpdate,
          _lastTotalUpdate, lectureStudyPlan, storageFull, now, pc, language,
          translations, localeFetches, activeElement, lastFocusedElement, handlers,
          listeners, focusable, last>>

\* the focus trap and the part of the document it works on
focusVars == <<activeElement, lastFocusedElement, handlers, listeners, focusable>>

-----------------------------------------------------------------------------
(* Bounds of the model *)

MaxCourses == 2             \* saveCourse adds a course only below this length
MaxClock == 1               \* the clock advances up to this reading
MaxTotalSemesters == 20     \* largest totalSemesters handed to the generator
MaxNegative == 2            \* the generator is handed totalSemesters down to -MaxNegative
MaxMapCourses == 3          \* largest plan handed to autoMapCourses
MaxCsvLines == 2            \* most lines after the header in a text handed to importCSV
MaxParsedInt == 24          \* largest numeral in a cell of such a text
MaxStatusCourses == 3       \* largest plan whose credit status is read
MaxFetches == 2             \* most calls of loadTranslations awaiting a response at once
MaxFocusable == 2           \* most focusable elements in a modal

-----------------------------------------------------------------------------
(* JavaScript primitives *)

Null == "NULL"

Digit == <<"0", "1", "2", "3", "4", "5", "6", "7", "8", "9">>

\* String(i) for an integer i: its decimal numeral
RECURSIVE String(_)
String(i) ==
    IF i < 0 THEN "-" \o String(-i)
    ELSE IF i < 10 THEN Digit[i + 1]
    ELSE String(i \div 10) \o Digit[(i % 10) + 1]

\* obj[k] = v
Put(obj, k, v) == [x \in (DOMAIN obj) \cup {k} |-> IF x = k THEN v ELSE obj[x]]

\* !obj[k] for an object of integers: the key is missing or its value is 0
FalsyNum(obj, k) == k \notin DOMAIN obj \/ obj[k] = 0

\* !s for a nullable string
FalsyStr(s) == s = Null \/ s = ""

-----------------------------------------------------------------------------
(* generateSemesterList *)

\* this.settings.totalSemesters || 8
TotalSemestersOr8(s) ==
    IF FalsyNum(s, "totalSemesters") THEN 8 ELSE s.totalSemesters

normalSemester(i) ==
    [id |-> String(i), name |-> "Semester " \o String(i), type |-> "normal"]

antaraSemester(antaraNum) ==
    [id |-> "antara-" \o String(antaraNum), name |-> "Antara " \o String(antaraNum),
     type |-> "antara"]

\* the first loop: pushes semester i and, after an even i below the total, an antara
RECURSIVE PushSemesters(_, _, _)
PushSemesters(i, totalSemesters, list) ==
    IF i > totalSemesters THEN list
    ELSE LET pushed == Append(list, normalSemester(i))
             withAntara == IF i % 2 = 0 /\ i < totalSemesters
                           THEN Append(pushed, antaraSemester(i \div 2))
                           ELSE pushed
         IN  PushSemesters(i + 1, totalSemesters, withAntara)

\* the second loop: default ceiling of every regular semester whose entry is falsy
RECURSIVE EnsureSemesterCredits(_, _, _)
EnsureSemesterCredits(i, totalSemesters, maxCredits) ==
    IF i > totalSemesters THEN maxCredits
    ELSE EnsureSemesterCredits(i + 1, totalSemesters,
            IF FalsyNum(maxCredits, String(i))
            THEN Put(maxCredits, String(i), IF i <= 2 THEN 20 ELSE 24)
            ELSE maxCredits)

\* the third loop: default ceiling of every antara semester whose entry is falsy
RECURSIVE EnsureAntaraCredits(_, _, _)
EnsureAntaraCredits(i, antaraCount, maxCredits) ==
    IF i > antaraCount THEN maxCredits
    ELSE EnsureAntaraCredits(i + 1, antaraCount,
            IF FalsyNum(maxCredits, "antara-" \o String(i))
            THEN Put(maxCredits, "antara-" \o String(i), 9)
            ELSE maxCredits)

\* Math.floor((totalSemesters - 1) / 2)
AntaraCount(totalSemesters) == (totalSemesters - 1) \div 2

\* Reading a property of settings.semesterMaxCredits throws a TypeError when
\* the map itself is missing; the first loop has then already run.
GenerateThrows(s) ==
    "semesterMaxCredits" \notin DOMAIN s /\ TotalSemestersOr8(s) >= 1

\* a generator that does not rebuild the list
GeneratedList_keep(s) == semesterList

GeneratedList(s) == PushSemesters(1, TotalSemestersOr8(s), <<>>)

GeneratedSettings(s) ==
    IF "semesterMaxCredits" \notin DOMAIN s THEN s
    ELSE LET total == TotalSemestersOr8(s)
             regular == EnsureSemesterCredits(1, total, s.semesterMaxCredits)
         IN  Put(s, "semesterMaxCredits",
                 EnsureAntaraCredits(1, AntaraCount(total), regular))

\* The log entry of a step: the handler that ran (op), its outcome (res), whether
\* it called confirm() (asked), the index of the course it acted on, the id
\* handed to deleteCourse and the semester handed to assignCourse. An
\* assignCourse entry also holds the credit total of
\* that semester (before) and the course's assignedSemester (was) at the call.
\* An unassignCourse entry that directly follows an assignCourse of the same
\* course carries sem, before and was of that call (sem is "" otherwise).
\* An import entry holds the text of the file it was handed (doc), an export
\* entry the file it wrote. A loadTranslations entry holds the language of the
\* file it fetched, a changeLanguage entry the language it was handed (lang).
\* A closeModal entry tells what the modal was open on (res). An activate or
\* deactivate entry holds the modal element (id), a keydown entry the modal
\* (id) and the rank (idx) of the element that had the focus and the key (doc).
\* The other handlers that do not touch the course collection log as Other.
NoOp == [op |-> "none", res |-> "", asked |-> FALSE, id |-> "", idx |-> 0, sem |-> "",
         before |-> 0, was |-> "", doc |-> <<>>, lang |-> ""]

Other == [NoOp EXCEPT !.op = "other"]

generateSemesterList ==
    /\ semesterList' = GeneratedList(settings)
    /\ settings' = GeneratedSettings(settings)
    /\ last' = [NoOp EXCEPT !.op = "generateSemesterList",
                            !.res = IF GenerateThrows(settings) THEN "threw" ELSE "ok"]
    /\ UNCHANGED <<courses, showAddModal, editingCourse, newCourse, lastSaved,
                   _cachedUnassigned, _cachedTotal, _lastCoursesUpdate, _lastTotalUpdate,
                   lectureStudyPlan, storageFull, now, pc,
                   language, translations, localeFetches, focusVars>>

-----------------------------------------------------------------------------
(* focusTrap: the focus trap of the modals *)

\* modal elements that the watchers of init hand to the focus trap, in the
\* order of the document: two of the three, which the trap treats alike
Modals == <<"showAddModal", "showSettingsModal">>

ModalSet == {Modals[i] : i \in DOMAIN Modals}

\* An element is the place it has in the document: the modal it belongs to and
\* its rank among the elements of that modal that match focusableSelectors.
\* PageElement is the control of the page that opens the modals.
PageElement == [in |-> "page", at |-> 1]

\* modalElement.querySelectorAll(this.focusableSelectors)
focusableElements(modalElement) ==
    [i \in 1..focusable[modalElement] |-> [in |-> modalElement, at |-> i]]

RECURSIVE ElementsFrom(_)
ElementsFrom(i) ==
    IF i > Len(Modals) THEN <<>> ELSE focusableElements(Modals[i]) \o ElementsFrom(i + 1)

\* the elements the Tab key walks through, in the order of the document (every
\* modal is taken to be shown)
TabOrder == <<PageElement>> \o ElementsFrom(1)

PlaceOf(element) == CHOOSE i \in DOMAIN TabOrder : TabOrder[i] = element

\* what the browser does with a Tab that no handler has prevented: focus moves
\* to the next element of the document, backwards with Shift, and wraps around
TabDefault(element, shiftKey) ==
    IF shiftKey
    THEN TabOrder[IF PlaceOf(element) = 1 THEN Len(TabOrder) ELSE PlaceOf(element) - 1]
    ELSE TabOrder[IF PlaceOf(element) = Len(TabOrder) THEN 1 ELSE PlaceOf(element) + 1]

\* the empty WeakMap
NoHandlers == [m \in {} |-> 0]

\* a handler is a new closure at every activate: an identity that no stored or
\* registered handler has
NewHandler ==
    CHOOSE h \in 1..(Len(Modals) * 2 + 1) :
        /\ \A m \in DOMAIN handlers : handlers[m] # h
        /\ \A m \in ModalSet : \A i \in DOMAIN listeners[m] : listeners[m][i] # h

\* removeEventListener('keydown', handler)
removeEventListener(list, handler) == SelectSeq(list, LAMBDA h : h # handler)

\* the listeners of the modal once activate has dropped the handler stored for
\* it, if any, and registered the new one
registered_keepExisting(list, modalElement, handler) == Append(list, handler)

registered(list, modalElement, handler) ==
    Append(IF modalElement \in DOMAIN handlers
           THEN removeEventListener(list, handlers[modalElement])
           ELSE list,
           handler)

\* focusTrap.activate(modalElement)
activate ==
    \E modalElement \in ModalSet :
        /\ lastFocusedElement' = <<activeElement>>
        /\ activeElement' = IF focusable[modalElement] > 0
                            THEN focusableElements(modalElement)[1]
                            ELSE activeElement
        /\ listeners' = [listeners EXCEPT
                            ![modalElement] = registered(@, modalElement, NewHandler)]
        /\ handlers' = Put(handlers, modalElement, NewHandler)
        /\ last' = [NoOp EXCEPT !.op = "activate", !.id = modalElement]
        /\ UNCHANGED <<settings, semesterList, courses, showAddModal, editingCourse,
                       newCourse, lastSaved, _cachedUnassigned, _cachedTotal,
                       _lastCoursesUpdate, _lastTotalUpdate, lectureStudyPlan,
                       storageFull, now, pc, language, translations, localeFetches,
                       focusable>>

\* the modal element handed to deactivate: document.querySelector may find none
DeactivateInputs == ModalSet \cup {Null}

\* focusTrap.deactivate(modalElement)
deactivate ==
    \E modalElement \in DeactivateInputs :
        /\ IF modalElement # Null /\ modalElement \in DOMAIN handlers
           THEN /\ listeners' = [listeners EXCEPT
                                    ![modalElement] =
                                        removeEventListener(@, handlers[modalElement])]
                /\ handlers' = [m \in (DOMAIN handlers) \ {modalElement} |-> handlers[m]]
           ELSE UNCHANGED <<listeners, handlers>>
        /\ activeElement' = IF lastFocusedElement # <<>>
                            THEN lastFocusedElement[1]
                            ELSE activeElement
        /\ last' = [NoOp EXCEPT !.op = "deactivate", !.id = modalElement]
        /\ UNCHANGED <<settings, semesterList, courses, showAddModal, editingCourse,
                       newCourse, lastSaved, _cachedUnassigned, _cachedTotal,
                       _lastCoursesUpdate, _lastTotalUpdate, lectureStudyPlan,
                       storageFull, now, pc, language, translations, localeFetches,
                       lastFocusedElement, focusable>>

\* focusTrap.handleKeyDown(e, modalElement) while the event stands at ev
\* (whether its default is prevented) and the focus at active: the event and
\* the focus it leaves
handleKeyDown_noShift(e, modalElement, ev, active) ==
    IF e.key = "Tab" /\ focusable[modalElement] > 0
          /\ active = focusableElements(modalElement)[focusable[modalElement]]
    THEN [defaultPrevented |-> TRUE, activeElement |-> focusableElements(modalElement)[1]]
    ELSE [defaultPrevented |-> ev, activeElement |-> active]

handleKeyDown(e, modalElement, ev, active) ==
    IF e.key = "Tab" /\ focusable[modalElement] > 0
    THEN IF e.shiftKey
         THEN IF active = focusableElements(modalElement)[1]
              THEN [defaultPrevented |-> TRUE,
                    activeElement |->
                        focusableElements(modalElement)[focusable[modalElement]]]
              ELSE [defaultPrevented |-> ev, activeElement |-> active]
         ELSE IF active = focusableElements(modalElement)[focusable[modalElement]]
              THEN [defaultPrevented |-> TRUE,
                    activeElement |-> focusableElements(modalElement)[1]]
              ELSE [defaultPrevented |-> ev, activeElement |-> active]
    ELSE [defaultPrevented |-> ev, activeElement |-> active]

\* the listeners of the modal are called in the order of their registration,
\* each one a closure over the modal it was registered on
RECURSIVE Dispatch(_, _, _, _, _)
Dispatch(list, e, modalElement, ev, active) ==
    IF list = <<>> THEN [defaultPrevented |-> ev, activeElement |-> active]
    ELSE Dispatch(Tail(list), e, modalElement,
                  handleKeyDown(e, modalElement, ev, active).defaultPrevented,
                  handleKeyDown(e, modalElement, ev, active).activeElement)

\* the keys pressed: Tab and a key the trap leaves alone, with and without Shift
KeydownInputs == {[key |-> k, shiftKey |-> s] : k \in {"Tab", "Enter"}, s \in BOOLEAN}

\* a key is pressed: the keydown event starts at the focused element and, when
\* that element is in a modal, reaches the listeners of the modal; the browser
\* moves the focus afterwards unless a listener has prevented it
keydown ==
    \E e \in KeydownInputs :
        LET handled == IF activeElement.in \in ModalSet
                       THEN Dispatch(listeners[activeElement.in], e, activeElement.in,
                                     FALSE, activeElement)
                       ELSE [defaultPrevented |-> FALSE, activeElement |-> activeElement]
        IN  /\ activeElement' = IF e.key = "Tab" /\ ~handled.defaultPrevented
                                THEN TabDefault(handled.activeElement, e.shiftKey)
                                ELSE handled.activeElement
            /\ last' = [NoOp EXCEPT !.op = "keydown", !.id = activeElement.in,
                                    !.idx = activeElement.at, !.doc = <<e>>,
                                    !.res = IF handled.defaultPrevented
                                            THEN "prevented" ELSE "default"]
            /\ UNCHANGED <<settings, semesterList, courses, showAddModal, editingCourse,
                           newCourse, lastSaved, _cachedUnassigned, _cachedTotal,
                           _lastCoursesUpdate, _lastTotalUpdate, lectureStudyPlan,
                           storageFull, now, pc, language, translations, localeFetches,
                           lastFocusedElement, handlers, listeners, focusable>>

\* element.focus(): the user, or a test, puts the focus on an element
focusElement ==
    \E place \in DOMAIN TabOrder :
        /\ TabOrder[place] # activeElement
        /\ activeElement' = TabOrder[place]
        /\ last' = [NoOp EXCEPT !.op = "focus"]
        /\ UNCHANGED <<settings, semesterList, courses, showAddModal, editingCourse,
                       newCourse, lastSaved, _cachedUnassigned, _cachedTotal,
                       _lastCoursesUpdate, _lastTotalUpdate, lectureStudyPlan,
                       storageFull, now, pc, language, translations, localeFetches,
                       lastFocusedElement, handlers, listeners, focusable>>

\* the page with no modal open and no trap set, the modals holding the given
\* numbers of focusable elements
PageOf(counts) ==
    /\ activeElement = PageElement
    /\ lastFocusedElement = <<>>
    /\ handlers = NoHandlers
    /\ listeners = [m \in ModalSet |-> <<>>]
    /\ focusable = counts

\* the page as the component finds it: a first and a last element in each modal
IndexPage == [m \in ModalSet |-> 2]

PageLoaded == PageOf(IndexPage)

-----------------------------------------------------------------------------
(* The component as constructed *)

\* (the Japanese texts are written in Latin letters)
defaults ==
    [en |-> [app_title |-> "Course Study Plan", loading |-> "Loading..."],
     id |-> [app_title |-> "Rencana Studi", loading |-> "Memuat..."],
     ja |-> [app_title |-> "Rishu keikaku", loading |-> "Yomikomichu..."]]

\* getDefaultTranslations without the English table for the other languages
getDefaultTranslations_ownOnly(lang) ==
    IF lang \in DOMAIN defaults THEN defaults[lang] ELSE [k \in {} |-> ""]

\* defaults[language] || defaults.en
getDefaultTranslations(lang) ==
    IF lang \in DOMAIN defaults THEN defaults[lang] ELSE defaults.en

\* the table of ./locales/<lang>.json, for the languages that have a file: the
\* entries of the built-in table and the entries the built-in table lacks
LocaleFile(lang) ==
    [k \in {"app_title", "loading", "data_saved"} |->
        IF k \in DOMAIN defaults[lang] THEN defaults[lang][k]
        ELSE IF lang = "en" THEN "Data saved"
        ELSE IF lang = "id" THEN "Data tersimpan"
        ELSE "Hozon shimashita"]

\* translations: {}
NoTranslations == [k \in {} |-> ""]

\* this.translations[key] || key
t(key) ==
    IF key \in DOMAIN translations /\ translations[key] # "" THEN translations[key]
    ELSE key

\* A call of loadTranslations that awaits its response is kept as the language
\* of the URL it fetches and its caller, init or changeLanguage.
InitFetchPending == \E i \in DOMAIN localeFetches : localeFetches[i].by = "init"

DefaultMaxCredits ==
    [k \in {"1", "2", "3", "4", "5", "6", "7", "8", "antara-1", "antara-2", "antara-3"} |->
        IF k \in {"1", "2"} THEN 20
        ELSE IF k \in {"antara-1", "antara-2", "antara-3"} THEN 9 ELSE 24]

DefaultSettings ==
    [totalSemesters |-> 8, semesterMaxCredits |-> DefaultMaxCredits, targetCredits |-> 145]

getEmptyCourse ==
    [id |-> "", code |-> "", name |-> "", type |-> "Wajib", credits |-> 0,
     lecturer |-> "", recommendedSemester |-> 1, assignedSemester |-> Null]

ConstructedOn(counts) ==
    /\ semesterList = <<>>
    /\ courses = <<>>
    /\ showAddModal = FALSE
    /\ editingCourse = <<>>
    /\ newCourse = getEmptyCourse
    /\ lastSaved = <<>>
    /\ _cachedUnassigned = <<>>
    /\ _cachedTotal = <<>>
    /\ _lastCoursesUpdate = 0
    /\ _lastTotalUpdate = 0
    /\ lectureStudyPlan = <<>>
    /\ storageFull = FALSE
    /\ now = 0
    /\ pc = "start"
    /\ language = "en"
    /\ translations = NoTranslations
    /\ localeFetches = <<>>
    /\ PageOf(counts)
    /\ last = NoOp

Constructed == ConstructedOn(IndexPage)

-----------------------------------------------------------------------------
(* The generator on bounded inputs *)

\* ceiling maps handed to the generator: empty, the constructor's, one with
\* configured values (a ceiling of 0 among them) and one with entries of
\* semesters beyond the list
MaxCreditsInputs ==
    { [k \in {} |-> 0],
      DefaultMaxCredits,
      [k \in {"1", "2", "3", "antara-1"} |->
          IF k = "1" THEN 18 ELSE IF k = "2" THEN 0 ELSE IF k = "3" THEN 22 ELSE 0],
      [k \in {"1", "30", "antara-12"} |-> IF k = "1" THEN 21 ELSE IF k = "30" THEN 0 ELSE 6] }

SettingsInputs ==
    { [totalSemesters |-> n, semesterMaxCredits |-> m, targetCredits |-> 145] :
        n \in (-MaxNegative)..MaxTotalSemesters, m \in MaxCreditsInputs }
    \cup { [semesterMaxCredits |-> m, targetCredits |-> 145] : m \in MaxCreditsInputs }

InitGen ==
    /\ settings \in SettingsInputs
    /\ Constructed

NextGen == generateSemesterList

SpecGen == InitGen /\ [][NextGen]_vars

-----------------------------------------------------------------------------
(* Derived aggregates and their caches *)

\* SumCredits adding 1 per course instead of its credits
RECURSIVE SumCredits_count(_)
SumCredits_count(list) ==
    IF list = <<>> THEN 0 ELSE 1 + SumCredits_count(Tail(list))

\* reduce((sum, c) => sum + c.credits, 0)
RECURSIVE SumCredits(_)
SumCredits(list) ==
    IF list = <<>> THEN 0 ELSE Head(list).credits + SumCredits(Tail(list))

IsUnassigned(c) == FalsyStr(c.assignedSemester)
IsAssigned(c) == ~FalsyStr(c.assignedSemester)

\* the value the getter unassignedCourses returns in the current state
unassignedCoursesValue ==
    IF _cachedUnassigned = <<>> \/ _lastCoursesUpdate # Len(courses)
    THEN SelectSeq(courses, IsUnassigned)
    ELSE _cachedUnassigned[1]

\* the getter unassignedCourses: recomputes when the cache is null or keyed on another length
unassignedCourses ==
    /\ _cachedUnassigned' = <<unassignedCoursesValue>>
    /\ _lastCoursesUpdate' = Len(courses)
    /\ last' = Other
    /\ UNCHANGED <<settings, semesterList, courses, showAddModal, editingCourse, newCourse,
                   lastSaved, _cachedTotal, _lastTotalUpdate, lectureStudyPlan,
                   storageFull, now, pc, language, translations, localeFetches, focusVars>>

\* totalCreditsTakenValue without the filter on assigned courses
totalCreditsTakenValue_allCourses ==
    IF _cachedTotal = <<>> \/ _lastTotalUpdate # Len(courses)
    THEN SumCredits(courses)
    ELSE _cachedTotal[1]

\* the value the getter totalCreditsTaken returns in the current state
totalCreditsTakenValue ==
    IF _cachedTotal = <<>> \/ _lastTotalUpdate # Len(courses)
    THEN SumCredits(SelectSeq(courses, IsAssigned))
    ELSE _cachedTotal[1]

\* the getter totalCreditsTaken
totalCreditsTaken ==
    /\ _cachedTotal' = <<totalCreditsTakenValue>>
    /\ _lastTotalUpdate' = Len(courses)
    /\ last' = Other
    /\ UNCHANGED <<settings, semesterList, courses, showAddModal, editingCourse, newCourse,
                   lastSaved, _cachedUnassigned, _lastCoursesUpdate, lectureStudyPlan,
                   storageFull, now, pc, language, translations, localeFetches, focusVars>>

invalidateCache ==
    /\ _cachedUnassigned' = <<>>
    /\ _cachedTotal' = <<>>
    /\ _lastCoursesUpdate' = 0
    /\ _lastTotalUpdate' = 0

CacheUnchanged ==
    UNCHANGED <<_cachedUnassigned, _cachedTotal, _lastCoursesUpdate, _lastTotalUpdate>>

getSemesterCourses(cs, semester) ==
    SelectSeq(cs, LAMBDA c : c.assignedSemester = semester)

getSemesterCredits(cs, semester) == SumCredits(getSemesterCourses(cs, semester))

\* getSemesterMaxCredits answering the fallback for every semester
getSemesterMaxCredits_fallback(semester) == 24

\* this.settings.semesterMaxCredits[semester] || 24
getSemesterMaxCredits(semester) ==
    IF FalsyNum(settings.semesterMaxCredits, semester) THEN 24
    ELSE settings.semesterMaxCredits[semester]

-----------------------------------------------------------------------------
(* Persistence *)

\* saveToLocalStorage setting lastSaved although setItem has thrown
saveToLocalStorage_stamps(cs) ==
    IF storageFull
    THEN UNCHANGED lectureStudyPlan /\ lastSaved' = <<now>>
    ELSE /\ lectureStudyPlan' = <<[settings |-> settings, courses |-> cs, lastSaved |-> now]>>
         /\ lastSaved' = <<now>>

\* saveToLocalStorage of the plan with course list cs; a throwing setItem is
\* caught and leaves the record and lastSaved as they were
saveToLocalStorage(cs) ==
    IF storageFull
    THEN UNCHANGED <<lectureStudyPlan, lastSaved>>
    ELSE /\ lectureStudyPlan' = <<[settings |-> settings, courses |-> cs, lastSaved |-> now]>>
         /\ lastSaved' = <<now>>

-----------------------------------------------------------------------------
(* The add/edit modal and its draft *)

openAddModal ==
    /\ editingCourse' = <<>>
    /\ newCourse' = getEmptyCourse
    /\ showAddModal' = TRUE
    /\ last' = Other
    /\ CacheUnchanged
    /\ UNCHANGED <<settings, semesterList, courses, lastSaved, lectureStudyPlan,
                   storageFull, now, pc, language, translations, localeFetches, focusVars>>

\* editingCourse refers to the course object itself; only its id is ever read,
\* and the id of an object never changes
openEditModal ==
    \E i \in DOMAIN courses :
        /\ editingCourse' = <<[id |-> courses[i].id]>>
        /\ newCourse' = courses[i]
        /\ showAddModal' = TRUE
        /\ last' = Other
        /\ CacheUnchanged
        /\ UNCHANGED <<settings, semesterList, courses, lastSaved, lectureStudyPlan,
                       storageFull, now, pc, language, translations, localeFetches, focusVars>>

\* a closeModal that first writes the draft over the course that is edited
closeModal_commits ==
    /\ showAddModal' = FALSE
    /\ editingCourse' = <<>>
    /\ newCourse' = getEmptyCourse
    /\ courses' = [i \in DOMAIN courses |->
                      IF editingCourse # <<>> /\ courses[i].id = editingCourse[1].id
                      THEN newCourse ELSE courses[i]]
    /\ last' = [NoOp EXCEPT !.op = "closeModal",
                            !.res = IF editingCourse = <<>> THEN "add"
                                    ELSE IF \E i \in DOMAIN courses : courses[i] = newCourse
                                    THEN "edit" ELSE "discarded"]
    /\ CacheUnchanged
    /\ UNCHANGED <<settings, semesterList, lastSaved, lectureStudyPlan,
                   storageFull, now, pc, language, translations, localeFetches, focusVars>>

\* closeModal: the log entry tells whether the modal was open on a new course
\* ("add"), or on a course of the collection with a draft equal to it ("edit")
\* or changed ("discarded")
closeModal ==
    /\ showAddModal' = FALSE
    /\ editingCourse' = <<>>
    /\ newCourse' = getEmptyCourse
    /\ last' = [NoOp EXCEPT !.op = "closeModal",
                            !.res = IF editingCourse = <<>> THEN "add"
                                    ELSE IF \E i \in DOMAIN courses : courses[i] = newCourse
                                    THEN "edit" ELSE "discarded"]
    /\ CacheUnchanged
    /\ UNCHANGED <<settings, semesterList, courses, lastSaved, lectureStudyPlan,
                   storageFull, now, pc, language, translations, localeFetches, focusVars>>

\* what the user types into the code, name and credits fields of the form:
\* entries that pass the validation of saveCourse ...
ValidDraftInputs ==
    { [code |-> "CS101", name |-> "Algorithms", credits |-> 1],
      [code |-> "CS101", name |-> "Algorithms", credits |-> 8] }

\* ... and entries that fail it: no code, no name, credits just outside 1..8
InvalidDraftInputs ==
    { [code |-> "", name |-> "Algorithms", credits |-> 8],
      [code |-> "CS101", name |-> "", credits |-> 1],
      [code |-> "CS101", name |-> "Algorithms", credits |-> 0],
      [code |-> "CS101", name |-> "Algorithms", credits |-> 9] }

DraftInputs == ValidDraftInputs \cup InvalidDraftInputs

\* the form fields of the open modal are bound to the draft
editDraft(inputs) ==
    /\ showAddModal
    /\ \E d \in inputs :
          newCourse' = [newCourse EXCEPT !.code = d.code, !.name = d.name,
                                         !.credits = d.credits]
    /\ last' = Other
    /\ CacheUnchanged
    /\ UNCHANGED <<settings, semesterList, courses, showAddModal, editingCourse,
                   lastSaved, lectureStudyPlan, storageFull, now, pc,
                   language, translations, localeFetches, focusVars>>

-----------------------------------------------------------------------------
(* The course store *)

\* courses.findIndex(c => c.id === id): the first matching index, 0 for -1
findIndex(cs, id) ==
    IF \E i \in DOMAIN cs : cs[i].id = id
    THEN CHOOSE i \in DOMAIN cs : cs[i].id = id /\ \A j \in 1..(i - 1) : cs[j].id # id
    ELSE 0

\* splice without its delete count: removes everything from index on
splice_noCount(cs, index) == SubSeq(cs, 1, index - 1)

\* courses.splice(index, 1)
splice(cs, index) ==
    [j \in 1..(Len(cs) - 1) |-> IF j < index THEN cs[j] ELSE cs[j + 1]]

\* updatedCourses treating a missing record as a new one
updatedCourses_pushMissing(cs, index, draft) ==
    IF index # 0 THEN [cs EXCEPT ![index] = draft] ELSE Append(cs, draft)

\* if (index !== -1) this.courses[index] = { ...this.newCourse }
updatedCourses(cs, index, draft) ==
    IF index # 0 THEN [cs EXCEPT ![index] = draft] ELSE cs

\* the two validations of saveCourse
RequiredFieldsMissing(d) == d.code = "" \/ d.name = ""

\* CreditsOutOfRange with the two comparisons made non-strict
CreditsOutOfRange_nonStrict(d) == d.credits <= 1 \/ d.credits >= 8

\* CreditsOutOfRange without the lower bound
CreditsOutOfRange_upperOnly(d) == d.credits > 8

CreditsOutOfRange(d) == d.credits < 1 \/ d.credits > 8

\* Date.now().toString()
NewId == String(now)

saveCourse ==
    IF RequiredFieldsMissing(newCourse) \/ CreditsOutOfRange(newCourse)
    THEN /\ last' = [NoOp EXCEPT !.op = "saveCourse", !.res = "rejected"]
         /\ CacheUnchanged
         /\ UNCHANGED <<settings, semesterList, courses, showAddModal, editingCourse,
                        newCourse, lastSaved, lectureStudyPlan, storageFull, now, pc,
                        language, translations, localeFetches, focusVars>>
    ELSE /\ IF editingCourse # <<>>
            THEN LET index == findIndex(courses, editingCourse[1].id)
                 IN  /\ courses' = updatedCourses(courses, index, newCourse)
                     /\ last' = [NoOp EXCEPT !.op = "saveCourse",
                                    !.res = IF index # 0 THEN "updated" ELSE "notfound",
                                    !.idx = index]
            ELSE /\ Len(courses) < MaxCourses
                 /\ courses' = Append(courses, [newCourse EXCEPT !.id = NewId])
                 /\ last' = [NoOp EXCEPT !.op = "saveCourse", !.res = "added",
                                         !.idx = Len(courses) + 1]
         /\ invalidateCache
         \* closeModal()
         /\ showAddModal' = FALSE
         /\ editingCourse' = <<>>
         /\ newCourse' = getEmptyCourse
         /\ saveToLocalStorage(courses')
         /\ UNCHANGED <<settings, semesterList, storageFull, now, pc,
                        language, translations, localeFetches, focusVars>>

\* ids a caller can hand to deleteCourse: those Date.now() can have produced
CourseIdInputs == {String(reading) : reading \in 0..MaxClock}

deleteCourse ==
    \E id \in CourseIdInputs, confirmed \in BOOLEAN :
        LET index == findIndex(courses, id)
        IN  IF confirmed /\ index # 0
            THEN /\ courses' = splice(courses, index)
                 /\ invalidateCache
                 /\ saveToLocalStorage(courses')
                 /\ last' = [NoOp EXCEPT !.op = "deleteCourse", !.res = "deleted",
                                         !.asked = TRUE, !.id = id, !.idx = index]
                 /\ UNCHANGED <<settings, semesterList, showAddModal, editingCourse,
                                newCourse, storageFull, now, pc,
                                language, translations, localeFetches, focusVars>>
            ELSE /\ last' = [NoOp EXCEPT !.op = "deleteCourse",
                                !.res = IF confirmed THEN "notfound" ELSE "declined",
                                !.asked = TRUE, !.id = id]
                 /\ CacheUnchanged
                 /\ UNCHANGED <<settings, semesterList, courses, showAddModal,
                                editingCourse, newCourse, lastSaved, lectureStudyPlan,
                                storageFull, now, pc,
                                language, translations, localeFetches, focusVars>>

\* semesters a caller hands to assignCourse; "" is the placeholder of the dropdown
SemesterInputs == {"", "antara-1"}

\* newTotal of assignCourse: the semester's current credits plus the course's
newTotal(course, semester) == getSemesterCredits(courses, semester) + course.credits

\* assignCourse(course, semester) with the semester drawn from semesters and
\* the answer to the confirmation, when it is asked for, from confirmations
assignCourseOf(semesters, confirmations) ==
    \E i \in DOMAIN courses, semester \in semesters, confirmation \in confirmations :
        LET course == courses[i]
            entry == [NoOp EXCEPT !.op = "assignCourse", !.idx = i,
                                  !.sem = semester,
                                  !.before = getSemesterCredits(courses, semester),
                                  !.was = course.assignedSemester]
            asks == ~FalsyStr(semester)
                    /\ newTotal(course, semester) > getSemesterMaxCredits(semester)
        IN  IF FalsyStr(semester) \/ (asks /\ ~confirmation)
            THEN /\ last' = [entry EXCEPT !.asked = asks,
                                !.res = IF asks THEN "declined" ELSE "ignored"]
                 /\ CacheUnchanged
                 /\ UNCHANGED <<settings, semesterList, courses, showAddModal,
                                editingCourse, newCourse, lastSaved, lectureStudyPlan,
                                storageFull, now, pc,
                                language, translations, localeFetches, focusVars>>
            ELSE /\ courses' = [courses EXCEPT ![i].assignedSemester = semester]
                 /\ invalidateCache
                 /\ saveToLocalStorage(courses')
                 /\ last' = [entry EXCEPT !.asked = asks, !.res = "assigned"]
                 /\ UNCHANGED <<settings, semesterList, showAddModal, editingCourse,
                                newCourse, storageFull, now, pc,
                                language, translations, localeFetches, focusVars>>

assignCourse == assignCourseOf(SemesterInputs, BOOLEAN)

unassignCourse ==
    \E i \in DOMAIN courses :
        /\ courses' = [courses EXCEPT ![i].assignedSemester = Null]
        /\ invalidateCache
        /\ saveToLocalStorage(courses')
        /\ last' = IF last.op = "assignCourse" /\ last.idx = i /\ last.res # "ignored"
                   THEN [last EXCEPT !.op = "unassignCourse", !.res = "unassigned"]
                   ELSE [NoOp EXCEPT !.op = "unassignCourse", !.res = "unassigned",
                                     !.idx = i]
        /\ UNCHANGED <<settings, semesterList, showAddModal, editingCourse, newCourse,
                       storageFull, now, pc, language, translations, localeFetches, focusVars>>

\* time passes
Tick ==
    /\ now < MaxClock
    /\ now' = now + 1
    /\ last' = Other
    /\ CacheUnchanged
    /\ UNCHANGED <<settings, semesterList, courses, showAddModal, editingCourse,
                   newCourse, lastSaved, lectureStudyPlan, storageFull, pc,
                   language, translations, localeFetches, focusVars>>

-----------------------------------------------------------------------------
(* The course store on the constructed component: courses are added through
   the add form with entries that pass the validation, then placed, removed
   from their semester and deleted *)

Init ==
    /\ settings = DefaultSettings
    /\ Constructed

Next ==
    \/ unassignedCourses
    \/ totalCreditsTaken
    \/ openAddModal
    \/ closeModal
    \/ editDraft(ValidDraftInputs)
    \/ saveCourse
    \/ deleteCourse
    \/ assignCourse
    \/ unassignCourse
    \/ Tick

Spec == Init /\ [][Next]_vars

-----------------------------------------------------------------------------
(* The course store while the quota of local storage is exceeded at times *)

\* the origin's storage runs full, or room is made: from then on setItem
\* throws, or succeeds again
storageQuota ==
    /\ storageFull' = ~storageFull
    /\ last' = [NoOp EXCEPT !.op = "storageQuota"]
    /\ CacheUnchanged
    /\ UNCHANGED <<settings, semesterList, courses, showAddModal, editingCourse,
                   newCourse, lastSaved, lectureStudyPlan, now, pc, language,
                   translations, localeFetches, focusVars>>

NextQuota ==
    \/ openAddModal
    \/ editDraft(ValidDraftInputs)
    \/ saveCourse
    \/ deleteCourse
    \/ unassignCourse
    \/ Tick
    \/ storageQuota

SpecQuota == Init /\ [][NextQuota]_vars

-----------------------------------------------------------------------------
(* The focus trap on pages of bounded size *)

\* pages whose modals hold up to MaxFocusable focusable elements each
PageInputs == [ModalSet -> 0..MaxFocusable]

InitTrap ==
    /\ settings = DefaultSettings
    /\ \E counts \in PageInputs : ConstructedOn(counts)

NextTrap ==
    \/ activate
    \/ deactivate
    \/ keydown
    \/ focusElement

SpecTrap == InitTrap /\ [][NextTrap]_vars

-----------------------------------------------------------------------------
(* The add/edit form: courses are added and edited with entries that pass or
   fail the validation, and deleted *)

NextForm ==
    \/ unassignedCourses
    \/ totalCreditsTaken
    \/ openAddModal
    \/ openEditModal
    \/ closeModal
    \/ editDraft(DraftInputs)
    \/ saveCourse
    \/ deleteCourse
    \/ Tick

SpecForm == Init /\ [][NextForm]_vars

-----------------------------------------------------------------------------
(* autoMapCourses *)

\* semesterExists taking every id for an id of the list
semesterExists_always(list, id) == TRUE

\* this.semesterList.find(s => s.id === recommendedSemester), as a truth value
semesterExists(list, id) == \E i \in DOMAIN list : list[i].id = id

\* autoMapped leaving every course as it is
autoMapped_skipAll(course, list) == course

\* the body of the forEach over the unassigned courses; a course without a
\* recommendation holds the falsy 0
autoMapped(course, list) ==
    IF course.recommendedSemester = 0 THEN course
    ELSE LET recommendedSemester == String(course.recommendedSemester)
         IN  IF semesterExists(list, recommendedSemester)
             THEN [course EXCEPT !.assignedSemester = recommendedSemester]
             ELSE course

\* the collection after the forEach: the course objects are changed in place
autoMappedCourses(cs, list) ==
    [i \in DOMAIN cs |-> IF IsUnassigned(cs[i]) THEN autoMapped(cs[i], list) ELSE cs[i]]

mappedCount(cs, list) ==
    Cardinality({i \in DOMAIN cs : autoMappedCourses(cs, list)[i] # cs[i]})

\* the log entry tells a run that mapped courses ("mapped") from one that
\* mapped none ("none"), and marks a run that directly follows another ("again")
autoMapCourses ==
    LET count == mappedCount(courses, semesterList)
    IN  /\ courses' = autoMappedCourses(courses, semesterList)
        /\ IF count > 0
           THEN /\ invalidateCache
                /\ saveToLocalStorage(courses')
           ELSE /\ CacheUnchanged
                /\ UNCHANGED <<lectureStudyPlan, lastSaved>>
        /\ last' = [NoOp EXCEPT !.op = "autoMapCourses",
                       !.res = IF last.op = "autoMapCourses" THEN "again"
                               ELSE IF count > 0 THEN "mapped" ELSE "none"]
        /\ UNCHANGED <<settings, semesterList, showAddModal, editingCourse, newCourse,
                       storageFull, now, pc, language, translations, localeFetches, focusVars>>

\* courses of a plan handed to autoMapCourses: 8 credits each, with no
\* recommendation (0), semester 1 or a semester beyond the list (9), unassigned
\* or placed in semester 1
MapCourseInputs ==
    { [getEmptyCourse EXCEPT !.code = "CS101", !.name = "Algorithms", !.credits = 8,
                             !.recommendedSemester = r, !.assignedSemester = a] :
        r \in {0, 1, 9}, a \in {Null, "1"} }

\* plans of up to MaxMapCourses such courses, the id of a course being its position
MapPlanInputs ==
    UNION { { [i \in 1..n |-> [f[i] EXCEPT !.id = String(i)]] :
                f \in [1..n -> MapCourseInputs] } : n \in 0..MaxMapCourses }

\* the component is ready with the constructor's settings, holds one of the
\* plans and has no semester over its ceiling
InitMap ==
    /\ settings = DefaultSettings
    /\ semesterList = GeneratedList(DefaultSettings)
    /\ courses \in MapPlanInputs
    /\ getSemesterCredits(courses, "1") <= getSemesterMaxCredits("1")
    /\ showAddModal = FALSE
    /\ editingCourse = <<>>
    /\ newCourse = getEmptyCourse
    /\ lastSaved = <<>>
    /\ _cachedUnassigned = <<>>
    /\ _cachedTotal = <<>>
    /\ _lastCoursesUpdate = 0
    /\ _lastTotalUpdate = 0
    /\ lectureStudyPlan = <<>>
    /\ storageFull = FALSE
    /\ now = 0
    /\ pc = "ready"
    /\ language = "en"
    /\ translations = LocaleFile("en")
    /\ localeFetches = <<>>
    /\ PageLoaded
    /\ last = NoOp

NextMap ==
    \/ autoMapCourses
    \/ unassignedCourses
    \/ totalCreditsTaken

SpecMap == InitMap /\ [][NextMap]_vars

-----------------------------------------------------------------------------
(* The plan of the ready component: courses are added, edited, deleted,
   placed in the semesters of the list, removed from them and mapped *)

\* settings with ceilings that the form's credits reach: three semesters, so
\* that the list holds an antara
PlanSettings ==
    [totalSemesters |-> 3, targetCredits |-> 145,
     semesterMaxCredits |->
        [k \in {"1", "2", "antara-1", "3"} |->
            IF k = "1" THEN 8 ELSE IF k = "3" THEN 24 ELSE 9]]

\* the plans at the start: a course of 1 or of 8 credits, placed in the antara
PlanInputs ==
    { <<[getEmptyCourse EXCEPT !.id = "1", !.code = "MA101", !.name = "Calculus",
                               !.credits = n, !.recommendedSemester = 9,
                               !.assignedSemester = "antara-1"]>> : n \in {1, 8} }

InitPlan ==
    /\ settings = GeneratedSettings(PlanSettings)
    /\ semesterList = GeneratedList(PlanSettings)
    /\ courses \in PlanInputs
    /\ showAddModal = FALSE
    /\ editingCourse = <<>>
    /\ newCourse = getEmptyCourse
    /\ lastSaved = <<>>
    /\ _cachedUnassigned = <<>>
    /\ _cachedTotal = <<>>
    /\ _lastCoursesUpdate = 0
    /\ _lastTotalUpdate = 0
    /\ lectureStudyPlan = <<>>
    /\ storageFull = FALSE
    /\ now = 0
    /\ pc = "ready"
    /\ language = "en"
    /\ translations = LocaleFile("en")
    /\ localeFetches = <<>>
    /\ PageLoaded
    /\ last = NoOp

\* what the user types into the form: credits at and just outside the ends of 1..8
PlanDraftInputs ==
    { [code |-> "CS101", name |-> "Algorithms", credits |-> n] : n \in {0, 1, 8, 9} }

\* the semesters picked in the dropdown: its placeholder and, of the ids of
\* the list, a regular semester and the antara
ListedSemesterInputs ==
    {""} \cup ({semesterList[i].id : i \in DOMAIN semesterList} \cap {"1", "antara-1"})

NextPlan ==
    \/ openAddModal
    \/ openEditModal
    \/ closeModal
    \/ editDraft(PlanDraftInputs)
    \/ saveCourse
    \/ deleteCourse
    \/ assignCourseOf(ListedSemesterInputs, BOOLEAN)
    \/ unassignCourse
    \/ autoMapCourses

SpecPlan == InitPlan /\ [][NextPlan]_vars

\* the plan worked on by a user who declines every confirmation of assignCourse
NextDeclined ==
    \/ openAddModal
    \/ openEditModal
    \/ editDraft(ValidDraftInputs)
    \/ saveCourse
    \/ deleteCourse
    \/ assignCourseOf(ListedSemesterInputs, {FALSE})
    \/ unassignCourse

SpecDeclined == InitPlan /\ [][NextDeclined]_vars

-----------------------------------------------------------------------------
(* Translations: loadTranslations and changeLanguage *)

\* outcomes of the fetch of ./locales/<lang>.json: a table ("ok", for the
\* languages that have a file), a status that is not a success ("notOk"), or
\* an exception of fetch or of response.json() ("threw")
FetchOutcomes(lang) ==
    IF lang \in DOMAIN defaults THEN {"ok", "notOk", "threw"} ELSE {"notOk", "threw"}

\* appliedTranslations keeping the table when the language has changed since
\* the call
appliedTranslations_latestOnly(prior, requested, outcome, current) ==
    IF requested # current THEN prior
    ELSE IF outcome = "ok" THEN LocaleFile(requested)
    ELSE getDefaultTranslations(current)

\* the table loadTranslations assigns when the fetch for the language
\* requested ends with outcome while this.language is current
appliedTranslations(prior, requested, outcome, current) ==
    IF outcome = "ok" THEN LocaleFile(requested)
    ELSE getDefaultTranslations(current)

\* array without its element i
RemoveAt(list, i) == SubSeq(list, 1, i - 1) \o SubSeq(list, i + 1, Len(list))

\* loadTranslations, from the response of its fetch on, for the call at
\* position i of those that await a response
loadTranslationsOf(i) ==
    \E outcome \in FetchOutcomes(localeFetches[i].lang) :
        /\ translations' = appliedTranslations(translations, localeFetches[i].lang,
                                               outcome, language)
        /\ localeFetches' = RemoveAt(localeFetches, i)
        /\ last' = [NoOp EXCEPT !.op = "loadTranslations", !.lang = localeFetches[i].lang,
                                !.res = outcome]
        /\ CacheUnchanged
        /\ UNCHANGED <<settings, semesterList, courses, showAddModal, editingCourse,
                       newCourse, lastSaved, lectureStudyPlan, storageFull, now, pc,
                       language, focusVars>>

\* any of the calls that await a response may be the next to get it
loadTranslations == \E i \in DOMAIN localeFetches : loadTranslationsOf(i)

\* languages of the language selector
LanguageInputs == {"en", "id", "ja"}

\* changeLanguage(lang): loadTranslations is called and not awaited; a throwing
\* setItem leaves changeLanguage before the call
changeLanguage ==
    \E lang \in LanguageInputs :
        /\ Len(localeFetches) < MaxFetches
        /\ language' = lang
        /\ localeFetches' = IF storageFull THEN localeFetches
                            ELSE Append(localeFetches, [lang |-> lang, by |-> "changeLanguage"])
        /\ last' = [NoOp EXCEPT !.op = "changeLanguage", !.lang = lang,
                                !.res = IF storageFull THEN "threw" ELSE "ok"]
        /\ CacheUnchanged
        /\ UNCHANGED <<settings, semesterList, courses, showAddModal, editingCourse,
                       newCourse, lastSaved, lectureStudyPlan, storageFull, now, pc,
                       translations, focusVars>>

-----------------------------------------------------------------------------
(* init: loadFromLocalStorage, loadData and the first generateSemesterList *)

\* init() is asynchronous. pc is where it stands: "start" while it awaits the
\* translations (it goes on once its call of loadTranslations has returned),
\* "loaded" once loadFromLocalStorage has returned true,
\* "fetching" while loadData awaits the default data after loadFromLocalStorage
\* has returned false, "fetched" once loadData has returned, "ready" once
\* generateSemesterList has returned and "threw" when it has thrown.
\* The page reads the getters only while init is suspended or over.
InitSuspended == pc \in {"start", "fetching", "ready", "threw"}

\* A JSON text is kept as the object it parses to, a property holding null
\* being a missing one; a text that JSON.parse rejects is kept as Unparseable.
Unparseable == [syntaxError |-> TRUE]

\* ParseThrows accepting every text
ParseThrows_never(text) == FALSE

\* JSON.parse(text) throws
ParseThrows(text) == "syntaxError" \in DOMAIN text

\* hasLocalStorage reporting no data whatever the item
hasLocalStorage_never(item) == FALSE

\* the value loadFromLocalStorage returns for the stored item: true when
\* there is an item and it parses
hasLocalStorage(item) == item # <<>> /\ ~ParseThrows(item[1])

\* if (data.settings) this.settings = data.settings
LoadedSettings(data, prior) ==
    IF "settings" \in DOMAIN data THEN data.settings ELSE prior

\* LoadedCourses never taking the courses of the record
LoadedCourses_keepPrior(data, prior) == prior

\* if (data.courses) this.courses = data.courses
LoadedCourses(data, prior) ==
    IF "courses" \in DOMAIN data THEN data.courses ELSE prior

\* if (data.lastSaved) this.lastSaved = data.lastSaved
LoadedLastSaved(data, prior) ==
    IF "lastSaved" \in DOMAIN data THEN <<data.lastSaved>> ELSE prior

loadFromLocalStorage ==
    /\ pc = "start"
    /\ ~InitFetchPending
    /\ IF hasLocalStorage(lectureStudyPlan)
       THEN LET data == lectureStudyPlan[1]
            IN  /\ settings' = LoadedSettings(data, settings)
                /\ courses' = LoadedCourses(data, courses)
                /\ lastSaved' = LoadedLastSaved(data, lastSaved)
                /\ invalidateCache
                /\ pc' = "loaded"
                /\ last' = [NoOp EXCEPT !.op = "loadFromLocalStorage", !.res = "loaded"]
       ELSE /\ UNCHANGED <<settings, courses, lastSaved>>
            /\ CacheUnchanged
            /\ pc' = "fetching"
            /\ last' = [NoOp EXCEPT !.op = "loadFromLocalStorage", !.res = "nodata"]
    /\ UNCHANGED <<semesterList, showAddModal, editingCourse, newCourse,
                   lectureStudyPlan, storageFull, now,
                   language, translations, localeFetches, focusVars>>

\* a fetch of ./data/courses.json that rejects, or whose body does not parse
FetchFailed == [networkError |-> TRUE]

\* data.settings with totalSemesters set to 8 when it is falsy
EnsureTotalSemesters(s) ==
    IF FalsyNum(s, "totalSemesters") THEN Put(s, "totalSemesters", 8) ELSE s

\* loadData once the fetch has completed with response
loadDataWith(response) ==
    IF response = FetchFailed
    THEN UNCHANGED <<settings, courses>>
    ELSE /\ settings' = IF "settings" \in DOMAIN response
                        THEN EnsureTotalSemesters(response.settings)
                        ELSE settings
         /\ courses' = IF "courses" \in DOMAIN response THEN response.courses ELSE <<>>

\* courses of the stored records and of the default data
StoredCourse ==
    [getEmptyCourse EXCEPT !.id = "7", !.code = "CS101", !.name = "Algorithms",
                           !.credits = 3, !.assignedSemester = "1"]

DefaultCourse(n) ==
    [getEmptyCourse EXCEPT !.id = "d" \o String(n), !.code = "MA10" \o String(n),
                           !.name = "Calculus", !.credits = 4,
                           !.recommendedSemester = n]

\* settings of the stored records: with ceilings for some of the semesters (a
\* ceiling of 0 among them), without semesterMaxCredits, without
\* totalSemesters, and with a totalSemesters of 0
StoredSettingsInputs ==
    { [totalSemesters |-> 4, targetCredits |-> 120,
       semesterMaxCredits |-> [k \in {"1", "2"} |-> IF k = "1" THEN 18 ELSE 0]],
      [totalSemesters |-> 6, targetCredits |-> 100],
      [targetCredits |-> 90, semesterMaxCredits |-> [k \in {"1"} |-> 22]],
      [totalSemesters |-> 0, targetCredits |-> 90,
       semesterMaxCredits |-> [k \in {"1"} |-> 22]] }

\* the stored item: absent, unparseable, or an object with any subset of the
\* properties settings, courses and lastSaved
StoredRecordInputs ==
    LET withSettings == {[k \in {} |-> 0]} \cup {[settings |-> s] : s \in StoredSettingsInputs}
        withCourses == {[k \in {} |-> 0]} \cup {[courses |-> cs] : cs \in {<<>>, <<StoredCourse>>}}
        withLastSaved == {[k \in {} |-> 0], [lastSaved |-> 5]}
        merged(a, b) == [k \in (DOMAIN a) \cup (DOMAIN b) |->
                            IF k \in DOMAIN a THEN a[k] ELSE b[k]]
    IN  { merged(merged(s, c), l) :
            s \in withSettings, c \in withCourses, l \in withLastSaved }

StoredItemInputs ==
    {<<>>, <<Unparseable>>} \cup {<<r>> : r \in StoredRecordInputs}

\* responses of the fetch of the default data
FetchResponses ==
    { FetchFailed,
      [settings |-> [totalSemesters |-> 10, targetCredits |-> 150,
                     semesterMaxCredits |-> DefaultMaxCredits],
       courses |-> <<DefaultCourse(1), DefaultCourse(2)>>],
      [settings |-> [targetCredits |-> 144, semesterMaxCredits |-> [k \in {} |-> 0]]],
      [courses |-> <<DefaultCourse(1)>>] }

loadData ==
    /\ pc = "fetching"
    /\ \E response \in FetchResponses :
          /\ loadDataWith(response)
          /\ last' = [NoOp EXCEPT !.op = "loadData",
                         !.res = IF response = FetchFailed THEN "failed" ELSE "fetched"]
    /\ pc' = "fetched"
    /\ CacheUnchanged
    /\ UNCHANGED <<semesterList, showAddModal, editingCourse, newCourse, lastSaved,
                   lectureStudyPlan, storageFull, now,
                   language, translations, localeFetches, focusVars>>

\* the call of generateSemesterList that ends init
initGenerateSemesterList ==
    /\ pc \in {"loaded", "fetched"}
    /\ semesterList' = GeneratedList(settings)
    /\ settings' = GeneratedSettings(settings)
    /\ pc' = IF GenerateThrows(settings) THEN "threw" ELSE "ready"
    /\ last' = [NoOp EXCEPT !.op = "init",
                            !.res = IF GenerateThrows(settings) THEN "threw" ELSE "ok"]
    /\ CacheUnchanged
    /\ UNCHANGED <<courses, showAddModal, editingCourse, newCourse, lastSaved,
                   lectureStudyPlan, storageFull, now,
                   language, translations, localeFetches, focusVars>>

\* the page is opened with any of the stored items in local storage
InitOpen ==
    /\ settings = DefaultSettings
    /\ semesterList = <<>>
    /\ courses = <<>>
    /\ showAddModal = FALSE
    /\ editingCourse = <<>>
    /\ newCourse = getEmptyCourse
    /\ lastSaved = <<>>
    /\ _cachedUnassigned = <<>>
    /\ _cachedTotal = <<>>
    /\ _lastCoursesUpdate = 0
    /\ _lastTotalUpdate = 0
    /\ lectureStudyPlan \in StoredItemInputs
    /\ storageFull = FALSE
    /\ now = 0
    /\ pc = "start"
    /\ language = "en"
    /\ translations = NoTranslations
    /\ localeFetches = <<[lang |-> "en", by |-> "init"]>>
    /\ PageLoaded
    /\ last = NoOp

NextInit ==
    \/ loadTranslations
    \/ loadFromLocalStorage
    \/ loadData
    \/ initGenerateSemesterList
    \/ (InitSuspended /\ unassignedCourses)
    \/ (InitSuspended /\ totalCreditsTaken)

SpecInit == InitOpen /\ [][NextInit]_vars

\* the synchronous end of init: from the return of loadFromLocalStorage or of
\* loadData to the return, or the exception, of generateSemesterList. Within
\* init these are the steps of initGenerateSemesterList, and each changes pc.
initReturns == pc \in {"loaded", "fetched"} /\ pc' \in {"ready", "threw"}

\* init is resumed whenever the response it awaits has arrived, and runs on
\* until it returns or throws
SpecInitLive ==
    /\ SpecInit
    /\ WF_vars(loadTranslations)
    /\ WF_vars(loadFromLocalStorage)
    /\ WF_vars(loadData)
    /\ WF_pc(initReturns)

\* The page is usable while init awaits a response: the user adds a course
\* through the form while init is suspended or over.
InitWithUser ==
    /\ InitOpen
    /\ lectureStudyPlan \in {<<>>, <<[courses |-> <<StoredCourse>>]>>}

NextWithUser ==
    \/ loadTranslations
    \/ loadFromLocalStorage
    \/ loadData
    \/ initGenerateSemesterList
    \/ (InitSuspended /\ openAddModal)
    \/ (InitSuspended /\ editDraft(ValidDraftInputs))
    \/ (InitSuspended /\ saveCourse)

SpecWithUser == InitWithUser /\ [][NextWithUser]_vars

\* the language item of local storage: absent ("en" is taken), or a language
\* with or without a built-in table
StoredLanguageInputs == {"en", "id", "fr"}

\* the page is opened without a stored record, on any stored language
InitLocale ==
    /\ settings = DefaultSettings
    /\ semesterList = <<>>
    /\ courses = <<>>
    /\ showAddModal = FALSE
    /\ editingCourse = <<>>
    /\ newCourse = getEmptyCourse
    /\ lastSaved = <<>>
    /\ _cachedUnassigned = <<>>
    /\ _cachedTotal = <<>>
    /\ _lastCoursesUpdate = 0
    /\ _lastTotalUpdate = 0
    /\ lectureStudyPlan = <<>>
    /\ storageFull = FALSE
    /\ now = 0
    /\ pc = "start"
    /\ language \in StoredLanguageInputs
    /\ translations = NoTranslations
    /\ localeFetches = <<[lang |-> language, by |-> "init"]>>
    /\ PageLoaded
    /\ last = NoOp

\* the language is changed while init is suspended or over
NextLocale ==
    \/ loadTranslations
    \/ loadFromLocalStorage
    \/ loadData
    \/ initGenerateSemesterList
    \/ (InitSuspended /\ changeLanguage)

SpecLocale == InitLocale /\ [][NextLocale]_vars

-----------------------------------------------------------------------------
(* importJSON and importCSV *)

\* saveToLocalStorage of the plan with settings s and course list cs
saveToLocalStorageOf(s, cs) ==
    IF storageFull
    THEN UNCHANGED <<lectureStudyPlan, lastSaved>>
    ELSE /\ lectureStudyPlan' = <<[settings |-> s, courses |-> cs, lastSaved |-> now]>>
         /\ lastSaved' = <<now>>

\* The value of the property courses of an imported document carries its JSON
\* type: [array |-> list], [string |-> text] or [number |-> n]. The settings
\* object of a document is given by its properties that hold a value
\* (settings) and the set of its properties that hold null (nullSettings).
IsArray(value) == "array" \in DOMAIN value

\* !value for a JSON value
FalsyValue(value) == value = [number |-> 0] \/ value = [string |-> ""]

\* !data.courses || !Array.isArray(data.courses)
InvalidDocument(data) ==
    \/ "courses" \notin DOMAIN data
    \/ FalsyValue(data.courses)
    \/ ~IsArray(data.courses)

\* confirmAsked with the confirmation requested for every document
confirmAsked_always(text) == TRUE

\* importJSON reaches confirm() for the text of the file
confirmAsked(text) == ~ParseThrows(text) /\ ~InvalidDocument(text)

\* { ...this.settings, ...data.settings }: in memory a property that holds null
\* is a missing one
SpreadSettings(s, data) ==
    [k \in ((DOMAIN s) \cup (DOMAIN data.settings)) \ data.nullSettings |->
        IF k \in DOMAIN data.settings THEN data.settings[k] ELSE s[k]]

\* the settings as merged by a confirmed importJSON, before the semester list
\* is regenerated
MergedSettings(s, data) == EnsureTotalSemesters(SpreadSettings(s, data))

\* courses of the imported documents
ImportedCourse(n) ==
    [getEmptyCourse EXCEPT !.id = "j" \o String(n), !.code = "PH10" \o String(n),
                           !.name = "Physics", !.credits = 2 + n,
                           !.recommendedSemester = n,
                           !.assignedSemester = IF n = 1 THEN Null ELSE "1"]

\* documents handed to importJSON: not JSON, without courses, with courses that
\* are not an array, with an array of courses, with settings, with settings
\* whose semesterMaxCredits is null, with a totalSemesters of 0 and with a map
\* of ceilings that holds a 0
JSONDocumentInputs ==
    { Unparseable,
      [settings |-> [targetCredits |-> 120], nullSettings |-> {}],
      [courses |-> [string |-> "none"]],
      [courses |-> [number |-> 0]],
      [courses |-> [array |-> <<>>]],
      [courses |-> [array |-> <<ImportedCourse(1)>>]],
      [courses |-> [array |-> <<ImportedCourse(2)>>],
       settings |-> [totalSemesters |-> 4, targetCredits |-> 120], nullSettings |-> {}],
      [courses |-> [array |-> <<ImportedCourse(2)>>],
       settings |-> [targetCredits |-> 100], nullSettings |-> {"semesterMaxCredits"}],
      [courses |-> [array |-> <<>>],
       settings |-> [totalSemesters |-> 0,
                     semesterMaxCredits |-> [k \in {"1", "2"} |-> IF k = "1" THEN 18 ELSE 0]],
       nullSettings |-> {}] }

\* reader.onload of importJSON for the text data of the chosen file and the
\* user's answer to confirm(). The log entry
\* holds the document, whether confirm() was called and the outcome: "rejected"
\* and "threw" are the two ways into the catch branch.
importJSONOf(data, confirmed) ==
        LET entry == [NoOp EXCEPT !.op = "importJSON", !.doc = <<data>>,
                                  !.asked = confirmAsked(data)]
        IN  IF ParseThrows(data) \/ InvalidDocument(data)
            THEN /\ last' = [entry EXCEPT !.res = "rejected"]
                 /\ CacheUnchanged
                 /\ UNCHANGED <<settings, semesterList, courses, showAddModal,
                                editingCourse, newCourse, lastSaved, lectureStudyPlan,
                                storageFull, now, pc,
                                language, translations, localeFetches, focusVars>>
            ELSE IF ~confirmed
            THEN /\ last' = [entry EXCEPT !.res = "declined"]
                 /\ CacheUnchanged
                 /\ UNCHANGED <<settings, semesterList, courses, showAddModal,
                                editingCourse, newCourse, lastSaved, lectureStudyPlan,
                                storageFull, now, pc,
                                language, translations, localeFetches, focusVars>>
            ELSE /\ courses' = data.courses.array
                 /\ IF "settings" \in DOMAIN data
                    THEN LET merged == MergedSettings(settings, data)
                         IN  /\ semesterList' = GeneratedList(merged)
                             /\ settings' = GeneratedSettings(merged)
                             /\ IF GenerateThrows(merged)
                                THEN /\ CacheUnchanged
                                     /\ UNCHANGED <<lectureStudyPlan, lastSaved>>
                                     /\ last' = [entry EXCEPT !.res = "threw"]
                                ELSE /\ invalidateCache
                                     /\ saveToLocalStorageOf(settings', courses')
                                     /\ last' = [entry EXCEPT !.res = "imported"]
                    ELSE /\ UNCHANGED <<settings, semesterList>>
                         /\ invalidateCache
                         /\ saveToLocalStorageOf(settings', courses')
                         /\ last' = [entry EXCEPT !.res = "imported"]
                 /\ UNCHANGED <<showAddModal, editingCourse, newCourse, storageFull,
                                now, pc, language, translations, localeFetches, focusVars>>

\* importJSON for the backups a user may choose
importJSON ==
    \E data \in JSONDocumentInputs, confirmed \in BOOLEAN : importJSONOf(data, confirmed)

\* A CSV text is kept as its lines after the header line. A line is blank, is
\* the list of the values the pattern finds in it with their quotes stripped
\* (cells), or is a line in which the pattern finds nothing, such as ",".
BlankLine == [blank |-> TRUE]
UnmatchedLine == [unmatched |-> TRUE]

\* lines[i].match(...) returns null, and .map on it throws
CsvThrows(lines) == \E i \in DOMAIN lines : lines[i] = UnmatchedLine

\* parseInt(s) for the texts of the cells: <<n>> for a numeral, <<>> for NaN
ParseInt(s) ==
    IF \E n \in 0..MaxParsedInt : String(n) = s
    THEN <<CHOOSE n \in 0..MaxParsedInt : String(n) = s>>
    ELSE <<>>

\* parseInt(s) || fallback
ParseIntOr(s, fallback) ==
    IF ParseInt(s) = <<>> \/ ParseInt(s)[1] = 0 THEN fallback ELSE ParseInt(s)[1]

\* values[k] || fallback, values[k] being undefined beyond the last value
ValueOr(values, k, fallback) ==
    IF k \in DOMAIN values /\ values[k] # "" THEN values[k] ELSE fallback

\* the course built from the values of line i
CsvCourse(values, i) ==
    [id |-> ValueOr(values, 1, String(now) \o String(i)),
     code |-> ValueOr(values, 2, ""),
     name |-> ValueOr(values, 3, ""),
     type |-> ValueOr(values, 4, "Wajib"),
     credits |-> ParseIntOr(ValueOr(values, 5, ""), 0),
     lecturer |-> ValueOr(values, 6, ""),
     recommendedSemester |-> ParseIntOr(ValueOr(values, 7, ""), 1),
     assignedSemester |-> ValueOr(values, 8, Null)]

\* CsvCourses with each course put in front of the ones read before it
RECURSIVE CsvCourses_unshift(_, _)
CsvCourses_unshift(lines, i) ==
    IF i > Len(lines) THEN <<>>
    ELSE IF lines[i] = BlankLine THEN CsvCourses_unshift(lines, i + 1)
    ELSE CsvCourses_unshift(lines, i + 1) \o <<CsvCourse(lines[i].cells, i)>>

\* newCourses: one course per line that is not blank, from line i on
RECURSIVE CsvCourses(_, _)
CsvCourses(lines, i) ==
    IF i > Len(lines) THEN <<>>
    ELSE IF lines[i] = BlankLine THEN CsvCourses(lines, i + 1)
    ELSE <<CsvCourse(lines[i].cells, i)>> \o CsvCourses(lines, i + 1)

\* lines of the texts handed to importCSV
CsvLineInputs ==
    { BlankLine,
      UnmatchedLine,
      [cells |-> <<"c1", "CS101", "Algorithms", "Wajib", "3", "Knuth", "2", "antara-1">>],
      [cells |-> <<"", "MA101", "Calculus", "Pilihan", "many">>],
      [cells |-> <<"02", "EN101", "English", "Wajib", "2", "Austen", "1">>] }

CsvTextInputs ==
    UNION { [1..n -> CsvLineInputs] : n \in 0..MaxCsvLines }

\* reader.onload of importCSV for the text of the chosen file
importCSV ==
    \E lines \in CsvTextInputs, confirmed \in BOOLEAN :
        LET entry == [NoOp EXCEPT !.op = "importCSV", !.doc = <<[csv |-> lines]>>,
                                  !.asked = ~CsvThrows(lines)]
        IN  IF CsvThrows(lines) \/ ~confirmed
            THEN /\ last' = [entry EXCEPT !.res = IF CsvThrows(lines) THEN "rejected"
                                                   ELSE "declined"]
                 /\ CacheUnchanged
                 /\ UNCHANGED <<settings, semesterList, courses, showAddModal,
                                editingCourse, newCourse, lastSaved, lectureStudyPlan,
                                storageFull, now, pc,
                                language, translations, localeFetches, focusVars>>
            ELSE /\ courses' = CsvCourses(lines, 1)
                 /\ invalidateCache
                 /\ saveToLocalStorage(courses')
                 /\ last' = [entry EXCEPT !.res = "imported"]
                 /\ UNCHANGED <<settings, semesterList, showAddModal, editingCourse,
                                newCourse, storageFull, now, pc,
                                language, translations, localeFetches, focusVars>>

\* the component after an init that found no stored record and no default
\* data: the constructor's settings and the semester list generated for them
InitReady ==
    /\ settings = GeneratedSettings(DefaultSettings)
    /\ semesterList = GeneratedList(DefaultSettings)
    /\ courses = <<>>
    /\ showAddModal = FALSE
    /\ editingCourse = <<>>
    /\ newCourse = getEmptyCourse
    /\ lastSaved = <<>>
    /\ _cachedUnassigned = <<>>
    /\ _cachedTotal = <<>>
    /\ _lastCoursesUpdate = 0
    /\ _lastTotalUpdate = 0
    /\ lectureStudyPlan = <<>>
    /\ storageFull = FALSE
    /\ now = 0
    /\ pc = "ready"
    /\ language = "en"
    /\ translations = LocaleFile("en")
    /\ localeFetches = <<>>
    /\ PageLoaded
    /\ last = NoOp

\* JSON backups are imported into the ready component
NextImport ==
    \/ importJSON
    \/ unassignedCourses
    \/ totalCreditsTaken

SpecImport == InitReady /\ [][NextImport]_vars

\* CSV texts are imported into the ready component
NextCsv ==
    \/ importCSV
    \/ unassignedCourses
    \/ totalCreditsTaken

SpecCsv == InitReady /\ [][NextCsv]_vars

\* JSON.stringify of { settings, courses, exportDate } as the document that
\* JSON.parse reads back from it: strings, integers and null are written and
\* read back as they are, a property that holds null is read back as null
\* (in memory, a missing one), the date is the clock reading
exportedDocument_settingsOnly(s, cs) ==
    [settings |-> s, nullSettings |-> {}, courses |-> [array |-> <<>>], exportDate |-> now]

exportedDocument(s, cs) ==
    [settings |-> s, nullSettings |-> {}, courses |-> [array |-> cs], exportDate |-> now]

\* exportToJSON: the download is logged as the document of the file
exportToJSON ==
    /\ last' = [NoOp EXCEPT !.op = "exportToJSON",
                            !.doc = <<exportedDocument(settings, courses)>>]
    /\ CacheUnchanged
    /\ UNCHANGED <<settings, semesterList, courses, showAddModal, editingCourse,
                   newCourse, lastSaved, lectureStudyPlan, storageFull, now, pc,
                   language, translations, localeFetches, focusVars>>

\* importJSON of the file that exportToJSON has just written
importExported ==
    /\ last.op = "exportToJSON"
    /\ \E confirmed \in BOOLEAN : importJSONOf(last.doc[1], confirmed)

\* the page is opened on any stored item, and the plan is exported and the
\* export imported back whenever init is suspended or over
NextBackup ==
    \/ loadTranslations
    \/ loadFromLocalStorage
    \/ loadData
    \/ initGenerateSemesterList
    \/ (InitSuspended /\ exportToJSON)
    \/ (InitSuspended /\ importExported)

SpecBackup == InitOpen /\ [][NextBackup]_vars

\* The CSV file that exportToCSV writes is kept as its lines.
\* array.join(',')
RECURSIVE Join(_)
Join(cells) ==
    IF cells = <<>> THEN ""
    ELSE IF Len(cells) = 1 THEN cells[1]
    ELSE cells[1] \o "," \o Join(Tail(cells))

\* `"${cell}"`
Quoted(cell) == "\"" \o cell \o "\""

CsvHeaders ==
    <<"ID", "Code", "Name", "Type", "Credits", "Lecturer", "Recommended Semester",
      "Assigned Semester">>

\* AssignedCell writing the assignedSemester as it is, null included
AssignedCell_raw(c) == IF c.assignedSemester = Null THEN "null" ELSE c.assignedSemester

\* c.assignedSemester || ''
AssignedCell(c) == IF FalsyStr(c.assignedSemester) THEN "" ELSE c.assignedSemester

\* the cells of the row of course c, numbers as their numerals
CsvRow(c) ==
    <<c.id, c.code, c.name, c.type, String(c.credits), c.lecturer,
      String(c.recommendedSemester), AssignedCell(c)>>

\* csvContent
CsvContent(cs) ==
    <<Join(CsvHeaders)>>
        \o [i \in 1..Len(cs) |-> Join([k \in 1..8 |-> Quoted(CsvRow(cs[i])[k])])]

\* exportToCSV: the download is logged as the lines of the file
exportToCSV ==
    /\ last' = [NoOp EXCEPT !.op = "exportToCSV", !.doc = <<[lines |-> CsvContent(courses)]>>]
    /\ CacheUnchanged
    /\ UNCHANGED <<settings, semesterList, courses, showAddModal, editingCourse,
                   newCourse, lastSaved, lectureStudyPlan, storageFull, now, pc,
                   language, translations, localeFetches, focusVars>>

\* plans are auto-mapped and exported as CSV
NextExport ==
    \/ autoMapCourses
    \/ exportToCSV

SpecExport == InitMap /\ [][NextExport]_vars

\* getCreditClass: the text colour of the credit total of a semester
getCreditClass(semester) ==
    LET credits == getSemesterCredits(courses, semester)
        max == getSemesterMaxCredits(semester)
    IN  IF credits > max THEN "text-red-600 dark:text-red-400"
        ELSE IF credits = max THEN "text-green-600 dark:text-green-400"
        ELSE "text-blue-600 dark:text-blue-400"

\* getSemesterBorderClass: the border colour of the card of a semester
getSemesterBorderClass(semester) ==
    LET credits == getSemesterCredits(courses, semester)
        max == getSemesterMaxCredits(semester)
    IN  IF credits > max THEN "border-red-500 dark:border-red-600"
        ELSE IF credits = max THEN "border-green-500 dark:border-green-600"
        ELSE "border-blue-500 dark:border-blue-600"

\* the page reads the two classes of a semester of the list
readCreditClass ==
    \E i \in DOMAIN semesterList :
        /\ last' = [NoOp EXCEPT !.op = "getCreditClass", !.sem = semesterList[i].id,
                                !.res = getCreditClass(semesterList[i].id)]
        /\ CacheUnchanged
        /\ UNCHANGED <<settings, semesterList, courses, showAddModal, editingCourse,
                       newCourse, lastSaved, lectureStudyPlan, storageFull, now, pc,
                       language, translations, localeFetches, focusVars>>

readSemesterBorderClass ==
    \E i \in DOMAIN semesterList :
        /\ last' = [NoOp EXCEPT !.op = "getSemesterBorderClass", !.sem = semesterList[i].id,
                                !.res = getSemesterBorderClass(semesterList[i].id)]
        /\ CacheUnchanged
        /\ UNCHANGED <<settings, semesterList, courses, showAddModal, editingCourse,
                       newCourse, lastSaved, lectureStudyPlan, storageFull, now, pc,
                       language, translations, localeFetches, focusVars>>

\* courses of the plans whose status is read: 4, 5 or 8 credits, unassigned or
\* placed in semester 2 or antara-1
StatusCourseInputs ==
    { [getEmptyCourse EXCEPT !.code = "CS101", !.name = "Algorithms", !.credits = c,
                             !.assignedSemester = a] :
        c \in {4, 5, 8}, a \in {Null, "2", "antara-1"} }

StatusPlanInputs ==
    UNION { { [i \in 1..n |-> [f[i] EXCEPT !.id = String(i)]] :
                f \in [1..n -> StatusCourseInputs] } : n \in 0..MaxStatusCourses }

\* settings whose ceilings the generator has completed: the constructor's, and
\* those of four semesters with a ceiling of 16 on semester 2
StatusSettingsInputs ==
    { GeneratedSettings(DefaultSettings),
      GeneratedSettings([totalSemesters |-> 4, targetCredits |-> 145,
                         semesterMaxCredits |-> [k \in {"2"} |-> 16]]) }

\* the component is ready and holds one of the plans
InitStatus ==
    /\ settings \in StatusSettingsInputs
    /\ semesterList = GeneratedList(settings)
    /\ courses \in StatusPlanInputs
    /\ showAddModal = FALSE
    /\ editingCourse = <<>>
    /\ newCourse = getEmptyCourse
    /\ lastSaved = <<>>
    /\ _cachedUnassigned = <<>>
    /\ _cachedTotal = <<>>
    /\ _lastCoursesUpdate = 0
    /\ _lastTotalUpdate = 0
    /\ lectureStudyPlan = <<>>
    /\ storageFull = FALSE
    /\ now = 0
    /\ pc = "ready"
    /\ language = "en"
    /\ translations = LocaleFile("en")
    /\ localeFetches = <<>>
    /\ PageLoaded
    /\ last = NoOp

NextStatus ==
    \/ readCreditClass
    \/ readSemesterBorderClass

SpecStatus == InitStatus /\ [][NextStatus]_vars

\* files of both kinds are imported into the ready component
NextFiles ==
    \/ importJSON
    \/ importCSV

SpecFiles == InitReady /\ [][NextFiles]_vars

\* a backup whose course is placed in a semester that the list does not hold
\* after the import: semester 3, imported with settings of two semesters
OrphanDocumentInputs ==
    { [courses |-> [array |-> <<[ImportedCourse(2) EXCEPT !.assignedSemester = "3"]>>],
       settings |-> [totalSemesters |-> 2], nullSettings |-> {}] }

\* the plan is worked on and read, and replaced by such backups
NextTotals ==
    \/ openAddModal
    \/ openEditModal
    \/ editDraft(ValidDraftInputs)
    \/ saveCourse
    \/ deleteCourse
    \/ assignCourseOf(ListedSemesterInputs, BOOLEAN)
    \/ unassignCourse
    \/ autoMapCourses
    \/ totalCreditsTaken
    \/ \E data \in OrphanDocumentInputs : importJSONOf(data, TRUE)

SpecTotals == InitPlan /\ [][NextTotals]_vars

\* the page from its opening on: init, and backups imported and courses mapped
\* and taken out of their semesters while init is suspended or over
NextSession ==
    \/ loadTranslations
    \/ loadFromLocalStorage
    \/ loadData
    \/ initGenerateSemesterList
    \/ (InitSuspended /\ importJSON)
    \/ (InitSuspended /\ autoMapCourses)
    \/ (InitSuspended /\ unassignCourse)

SpecSession == InitOpen /\ [][NextSession]_vars

-----------------------------------------------------------------------------
(* Properties of the generator, checked under SpecGen *)

Generated == last.op = "generateSemesterList"

NormalEntries == {i \in DOMAIN semesterList : semesterList[i].type = "normal"}
AntaraEntries == {i \in DOMAIN semesterList : semesterList[i].type = "antara"}

\* index of regular semester k in the pattern 1,2,antara-1,3,4,antara-2,...
RegularPosition(k) == k + ((k - 1) \div 2)

\* the counts and the interleaving order claimed for a total of n semesters
InterleavedFor(n) ==
    /\ Cardinality(NormalEntries) = n
    /\ Cardinality(AntaraEntries) = (n - 1) \div 2
    /\ \A k \in 1..n :
          /\ RegularPosition(k) \in DOMAIN semesterList
          /\ semesterList[RegularPosition(k)] = normalSemester(k)
    /\ \A k \in 1..n :
          (2 * k < n) <=>
             /\ RegularPosition(2 * k) + 1 \in DOMAIN semesterList
             /\ semesterList[RegularPosition(2 * k) + 1] = antaraSemester(k)
    /\ \A i \in AntaraEntries : \E k \in 1..n : semesterList[i] = antaraSemester(k)
    /\ semesterList # <<>> => semesterList[Len(semesterList)].type # "antara"

\* C1 as stated: for every totalSemesters in 0..20 the list has totalSemesters
\* normal entries and floor((totalSemesters-1)/2) antara entries, interleaved
\* 1,2,antara-1,3,4,antara-2,... and never ends with an antara.
C1_Original ==
    (Generated /\ "totalSemesters" \in DOMAIN settings
               /\ settings.totalSemesters \in 0..MaxTotalSemesters)
        => InterleavedFor(settings.totalSemesters)

\* For every totalSemesters from 1 on, the list has the counts and the
\* interleaving that C1 describes.
SemesterListInterleaved ==
    (Generated /\ "totalSemesters" \in DOMAIN settings
               /\ settings.totalSemesters \in 1..MaxTotalSemesters)
        => InterleavedFor(settings.totalSemesters)

\* C2: totalSemesters 0 or negative yields an empty list; only a missing
\* totalSemesters is replaced by 8.
C2_Original ==
    Generated =>
        IF "totalSemesters" \in DOMAIN settings
        THEN settings.totalSemesters <= 0 => semesterList = <<>>
        ELSE semesterList = PushSemesters(1, 8, <<>>)

\* C3: the generator changes semesterMaxCredits only by adding the defaults of
\* ids missing from the map (20 for regular 1 and 2, 24 for regular 3 and
\* above, 9 for antara ids); every entry already present keeps its value,
\* 0 included, and no entry is removed.
C3_Original ==
    [][ (last'.op = "generateSemesterList" /\ "semesterMaxCredits" \in DOMAIN settings)
          => LET old == settings.semesterMaxCredits
                 new == settings'.semesterMaxCredits
             IN  /\ DOMAIN old \subseteq DOMAIN new
                 /\ \A k \in DOMAIN old : new[k] = old[k]
                 /\ \A k \in (DOMAIN new) \ (DOMAIN old) :
                       new[k] = IF k \in {"1", "2"} THEN 20
                                ELSE IF \E i \in 1..MaxTotalSemesters + 1 :
                                           k = "antara-" \o String(i)
                                     THEN 9 ELSE 24 ]_vars

-----------------------------------------------------------------------------
(* Properties of the add/edit form, checked under SpecForm *)

Caches == <<_cachedUnassigned, _cachedTotal, _lastCoursesUpdate, _lastTotalUpdate>>

\* C4: saveCourse (add or update) is rejected exactly when the draft has an
\* empty code, an empty name or credits outside 1..8 (0 and 9 rejected, 1 and 8
\* accepted), and a rejection leaves the course collection, the caches, the
\* stored record, the open modal and the draft unchanged.
C4_RejectedUnchanged ==
    [][ last'.op = "saveCourse"
          => /\ (last'.res = "rejected")
                    <=> (newCourse.code = "" \/ newCourse.name = ""
                            \/ newCourse.credits \notin 1..8)
             /\ last'.res = "rejected"
                    => UNCHANGED <<courses, Caches, lectureStudyPlan, lastSaved,
                                   showAddModal, editingCourse, newCourse>> ]_vars

\* a rejected update: the modal is still open on the draft with 9 credits
C4_Witness ==
    /\ last.op = "saveCourse"
    /\ last.res = "rejected"
    /\ showAddModal
    /\ editingCourse # <<>>
    /\ newCourse.credits = 9
    /\ courses # <<>>
    /\ lectureStudyPlan # <<>>

\* C7: a valid update replaces exactly the record with the edited id by the
\* draft, at the same index, and leaves the length of courses and all other
\* records as they were; when no record has that id, courses is unchanged.
C7_UpdateInPlace ==
    [][ (last'.op = "saveCourse" /\ last'.res # "rejected" /\ editingCourse # <<>>)
          => LET matches == {i \in DOMAIN courses : courses[i].id = editingCourse[1].id}
             IN  /\ Len(courses') = Len(courses)
                 /\ matches = {} => courses' = courses
                 /\ matches # {} =>
                       \E i \in matches :
                          /\ courses'[i] = newCourse
                          /\ \A j \in DOMAIN courses : j # i => courses'[j] = courses[j] ]_vars

\* the second of two courses was updated to 8 credits, the first kept its 1
C7_Witness ==
    /\ last.op = "saveCourse"
    /\ last.res = "updated"
    /\ last.idx = 2
    /\ Len(courses) = 2
    /\ courses[1].credits = 1
    /\ courses[2].credits = 8

-----------------------------------------------------------------------------
(* Properties of the course store, checked under Spec *)

\* semester ids the properties range over
SemesterIds == {"1", "antara-1"}

C6_Original ==
    \A i, j \in DOMAIN courses : i # j => courses[i].id # courses[j].id

TotalAfterAssignment ==
    last.before + (IF last.was = last.sem THEN 0 ELSE courses[last.idx].credits)

\* C9: assignCourse(course, s) asks for confirmation exactly when the credit
\* total of s after the assignment would exceed the ceiling of s; it commits
\* without asking otherwise, commits when the confirmation is granted, and
\* leaves the course where it was when the confirmation is declined.
C9_Original ==
    (last.op = "assignCourse" /\ last.sem # "")
        => /\ last.asked <=> TotalAfterAssignment > getSemesterMaxCredits(last.sem)
           /\ ~last.asked => last.res = "assigned"
           /\ last.res = "assigned" => courses[last.idx].assignedSemester = last.sem
           /\ last.res # "assigned" =>
                 last.asked /\ courses[last.idx].assignedSemester = last.was

\* sum of the credits of the courses at the indices in S
RECURSIVE CreditsAt(_)
CreditsAt(S) ==
    IF S = {} THEN 0
    ELSE LET i == CHOOSE x \in S : TRUE
         IN  courses[i].credits + CreditsAt(S \ {i})

\* getSemesterCredits(s) is the credit sum of exactly the courses assigned to s
CreditsPerSemester ==
    \A sem \in SemesterIds :
        getSemesterCredits(courses, sem)
            = CreditsAt({i \in DOMAIN courses : courses[i].assignedSemester = sem})

\* the step just taken is an unassignCourse directly after an assignCourse of
\* the same course to a semester
RoundTrip == last.op = "unassignCourse" /\ last.sem # ""

\* C10 as stated: getSemesterCredits(s) is the credit sum of exactly the courses
\* assigned to s, and for any course and semester s, assignCourse(course, s)
\* followed by unassignCourse(course) returns getSemesterCredits(s) to its
\* value before the assign.
C10_Original ==
    /\ CreditsPerSemester
    /\ RoundTrip => getSemesterCredits(courses, last.sem) = last.before

\* C10 (amended): getSemesterCredits(s) is the credit sum of exactly the courses
\* assigned to s, and for any course that is not assigned to s, assignCourse
\* (course, s) followed by unassignCourse(course) returns getSemesterCredits(s)
\* to its value before the assign.
C10_RoundTrip ==
    /\ CreditsPerSemester
    /\ (RoundTrip /\ last.was # last.sem)
          => getSemesterCredits(courses, last.sem) = last.before

\* an unassigned course went into antara-1, which held 8 credits, and out again
C10_Witness ==
    /\ RoundTrip
    /\ last.sem = "antara-1"
    /\ last.was = Null
    /\ last.before = 8
    /\ getSemesterCredits(courses, "antara-1") = 8

-----------------------------------------------------------------------------
(* Properties of autoMapCourses, checked under SpecMap *)

\* the ids of the current semester list
ListedIds == {semesterList[i].id : i \in DOMAIN semesterList}

\* C11: autoMapCourses never changes a course that is already assigned and
\* never assigns a course whose stringified recommendedSemester is not an id of
\* the current semester list; a second run directly after the first changes no
\* course, no cache and no stored record.
C11_AutoMapIdempotent ==
    [][ last'.op = "autoMapCourses"
          => /\ Len(courses') = Len(courses)
             /\ \A i \in DOMAIN courses :
                   /\ IsAssigned(courses[i]) => courses'[i] = courses[i]
                   /\ courses'[i] # courses[i] =>
                         /\ String(courses[i].recommendedSemester) \in ListedIds
                         /\ courses'[i] = [courses[i] EXCEPT !.assignedSemester =
                                              String(courses[i].recommendedSemester)]
             /\ last.op = "autoMapCourses"
                   => UNCHANGED <<courses, Caches, lectureStudyPlan, lastSaved>> ]_vars

\* a second run after a run that mapped the first course and left alone a
\* course recommended for semester 9 and a course placed before the runs
C11_Witness ==
    /\ last.op = "autoMapCourses"
    /\ last.res = "again"
    /\ lectureStudyPlan # <<>>
    /\ Len(courses) = 3
    /\ courses[1].recommendedSemester = 1 /\ courses[1].assignedSemester = "1"
    /\ courses[2].recommendedSemester = 9 /\ courses[2].assignedSemester = Null
    /\ courses[3].recommendedSemester = 0 /\ courses[3].assignedSemester = "1"

C13_Original ==
    last.op = "autoMapCourses"
        => \A id \in ListedIds :
              getSemesterCredits(courses, id) <= getSemesterMaxCredits(id)

-----------------------------------------------------------------------------
(* Properties of init, checked under SpecInit *)

NoRecord == lectureStudyPlan = <<>>

\* the stored item is not parseable as JSON
RecordUnreadable ==
    lectureStudyPlan # <<>> /\ "syntaxError" \in DOMAIN lectureStudyPlan[1]

\* the stored item parses
RecordReadable ==
    lectureStudyPlan # <<>> /\ "syntaxError" \notin DOMAIN lectureStudyPlan[1]

\* the stored record holds the settings and the courses of the component
RecordMatchesMemory ==
    /\ RecordReadable
    /\ "settings" \in DOMAIN lectureStudyPlan[1]
    /\ "courses" \in DOMAIN lectureStudyPlan[1]
    /\ lectureStudyPlan[1].settings = settings
    /\ lectureStudyPlan[1].courses = courses

\* C15: every change of settings or courses is saved: whenever an operation has
\* completed and storage writes succeed, the settings and courses of the stored
\* record equal the in-memory ones, the ceilings back-filled by
\* generateSemesterList during init and the default data loaded by loadData
\* included.
C15_Original ==
    (pc = "ready" /\ ~storageFull) => RecordMatchesMemory

\* the settings, courses and semester list init ends with when there is no
\* record at all and the fetch of the default data completes with response
PlanWithoutRecord(response) ==
    LET fetched == response # FetchFailed
        s == IF fetched /\ "settings" \in DOMAIN response
             THEN IF "totalSemesters" \in DOMAIN response.settings
                     /\ response.settings.totalSemesters # 0
                  THEN response.settings
                  ELSE Put(response.settings, "totalSemesters", 8)
             ELSE DefaultSettings
        cs == IF fetched /\ "courses" \in DOMAIN response THEN response.courses ELSE <<>>
    IN  <<GeneratedSettings(s), cs, GeneratedList(s)>>

\* C16: when the stored record is not parseable as JSON, loadFromLocalStorage
\* changes none of settings, courses and lastSaved and reports no data, so init
\* ends with the settings, courses and semester list it ends with when there is
\* no record at all.
C16_UnreadableAsAbsent ==
    /\ [][ (last'.op = "loadFromLocalStorage" /\ (RecordUnreadable \/ NoRecord))
             => /\ UNCHANGED <<settings, courses, lastSaved, semesterList, Caches>>
                /\ last'.res = "nodata"
                /\ pc' = "fetching" ]_vars
    /\ []( (pc \in {"ready", "threw"} /\ (RecordUnreadable \/ NoRecord))
             => /\ pc = "ready"
                /\ lastSaved = <<>>
                /\ \E response \in FetchResponses :
                      <<settings, courses, semesterList>> = PlanWithoutRecord(response) )

\* init is over with an unparseable record in storage and the two default
\* courses in the plan
C16_Witness ==
    /\ pc = "ready"
    /\ RecordUnreadable
    /\ courses = <<DefaultCourse(1), DefaultCourse(2)>>
    /\ Len(semesterList) = 14

\* C17: when the stored record parses but lacks some of settings, courses and
\* lastSaved, loadFromLocalStorage overwrites exactly the fields that are
\* present and leaves each absent field at its prior in-memory value.
C17_FieldByField ==
    [][ (last'.op = "loadFromLocalStorage" /\ RecordReadable)
          => LET data == lectureStudyPlan[1]
             IN  /\ last'.res = "loaded"
                 /\ IF "settings" \in DOMAIN data
                    THEN settings' = data.settings ELSE UNCHANGED settings
                 /\ IF "courses" \in DOMAIN data
                    THEN courses' = data.courses ELSE UNCHANGED courses
                 /\ IF "lastSaved" \in DOMAIN data
                    THEN lastSaved' = <<data.lastSaved>> ELSE UNCHANGED lastSaved ]_vars

\* a record with courses and lastSaved but no settings was loaded
C17_Witness ==
    /\ pc = "loaded"
    /\ RecordReadable
    /\ DOMAIN lectureStudyPlan[1] = {"courses", "lastSaved"}
    /\ settings = DefaultSettings
    /\ courses = <<StoredCourse>>
    /\ lastSaved = <<5>>

\* what init took from storage: the settings and the courses of the record
\* where it has them, the constructor's otherwise
TakenSettings ==
    IF "settings" \in DOMAIN lectureStudyPlan[1]
    THEN lectureStudyPlan[1].settings ELSE DefaultSettings

TakenCourses ==
    IF "courses" \in DOMAIN lectureStudyPlan[1]
    THEN lectureStudyPlan[1].courses ELSE <<>>

-----------------------------------------------------------------------------
(* Properties of the imports, checked under SpecImport *)

\* C14: after any sequence of operations (imports that end in the error branch
\* included) interleaved with reads of the getters, a read of unassignedCourses
\* equals the courses with no assignedSemester and a read of totalCreditsTaken
\* equals the credit sum of the assigned courses: the length-keyed cache is
\* never stale.
C14_Original ==
    /\ unassignedCoursesValue = SelectSeq(courses, LAMBDA c : c.assignedSemester \in {Null, ""})
    /\ totalCreditsTakenValue
          = CreditsAt({i \in DOMAIN courses : courses[i].assignedSemester \notin {Null, ""}})

\* the document of the logged import lacks an array of courses
LacksCourseArray ==
    /\ "syntaxError" \notin DOMAIN last.doc[1]
    /\ \/ "courses" \notin DOMAIN last.doc[1]
       \/ "array" \notin DOMAIN last.doc[1].courses

\* C19: importJSON of a document whose courses field is missing or is not an
\* array is rejected with an error before any confirmation is requested, and
\* leaves courses, settings, the semester list and the stored record unchanged.
C19_RejectedBeforeConfirm ==
    [][ (last'.op = "importJSON" /\ LacksCourseArray')
          => /\ last'.res = "rejected"
             /\ ~last'.asked
             /\ UNCHANGED <<courses, settings, semesterList, lectureStudyPlan,
                            lastSaved>> ]_vars

\* a document whose courses is a string was rejected by a component that holds
\* an imported course and its stored record
C19_Witness ==
    /\ last.op = "importJSON"
    /\ last.doc = <<[courses |-> [string |-> "none"]]>>
    /\ last.res = "rejected"
    /\ courses = <<ImportedCourse(1)>>
    /\ lectureStudyPlan # <<>>

\* C20: an import is all-or-nothing: whenever importJSON or importCSV ends in
\* its error branch, at whatever step the exception is raised (after the user
\* confirmed included), courses, settings, the semester list and the stored
\* record are exactly as they were before the import.
C20_Original ==
    [][ (last'.op \in {"importJSON", "importCSV"} /\ last'.res \in {"rejected", "threw"})
          => UNCHANGED <<courses, settings, semesterList, lectureStudyPlan>> ]_vars

\* the logged import was confirmed by the user
ConfirmedImport == last.asked /\ last.res \in {"imported", "threw"}

\* C21: a confirmed importJSON with a settings object sets each settings key
\* present in the file to the imported value (each ceiling of an imported
\* semesterMaxCredits map included), keeps every other key of the current
\* settings and regenerates the semester list from the merged settings; a
\* confirmed importJSON without settings leaves settings and the semester list
\* unchanged.
C21_Original ==
    [][ (last'.op = "importJSON" /\ ConfirmedImport')
          => LET data == last'.doc[1]
             IN  IF "settings" \in DOMAIN data
                 THEN LET file == data.settings
                          kept == (DOMAIN settings) \ ((DOMAIN file) \cup data.nullSettings)
                      IN  /\ \A k \in (DOMAIN file) \ {"semesterMaxCredits"} :
                                k \in DOMAIN settings' /\ settings'[k] = file[k]
                          /\ "semesterMaxCredits" \in DOMAIN file
                                => \A id \in DOMAIN file.semesterMaxCredits :
                                      settings'.semesterMaxCredits[id]
                                         = file.semesterMaxCredits[id]
                          /\ \A k \in kept \ {"semesterMaxCredits"} :
                                k \in DOMAIN settings' /\ settings'[k] = settings[k]
                          /\ "semesterMaxCredits" \in kept
                                => \A id \in DOMAIN settings.semesterMaxCredits :
                                      settings'.semesterMaxCredits[id]
                                         = settings.semesterMaxCredits[id]
                          /\ semesterList'
                                = PushSemesters(1, TotalSemestersOr8(settings'), <<>>)
                 ELSE UNCHANGED <<settings, semesterList>> ]_vars

\* the rows of the CSV text of the logged import, in file order
LoggedRows == SelectSeq(last.doc[1].csv, LAMBDA line : line # BlankLine)

\* courses is the list of the file of the logged import: the array of the JSON
\* document, or one course per row of the CSV text with the row's cells
ImportedList ==
    IF last.op = "importJSON" THEN courses = last.doc[1].courses.array
    ELSE /\ Len(courses) = Len(LoggedRows)
         /\ \A k \in DOMAIN LoggedRows :
               LET cells == LoggedRows[k].cells
               IN  /\ cells[1] # "" => courses[k].id = cells[1]
                   /\ courses[k].code = cells[2]
                   /\ courses[k].name = cells[3]
                   /\ courses[k].type = cells[4]

\* C22: both import paths commit only after the user confirms and replace the
\* course collection: after a confirmed import courses is exactly the list of
\* the file, in file order, with none of the previous courses kept beside it;
\* when the confirmation is declined (or never requested), courses, settings,
\* the semester list and the stored record are unchanged.
C22_ReplaceOnConfirm ==
    [][ last'.op \in {"importJSON", "importCSV"}
          => /\ ConfirmedImport' => ImportedList'
             /\ ~ConfirmedImport'
                   => /\ last'.res \in {"rejected", "declined"}
                      /\ UNCHANGED <<courses, settings, semesterList,
                                     lectureStudyPlan, lastSaved>> ]_vars

\* a CSV text of two rows replaced the course of the JSON backup that had
\* brought the target of 120 credits
C22_Witness ==
    /\ last.op = "importCSV"
    /\ last.res = "imported"
    /\ Len(courses) = 2
    /\ courses[1].id = "c1"
    /\ courses[2].code = "MA101"
    /\ settings.targetCredits = 120
    /\ lectureStudyPlan[1].courses = courses

\* the step is a confirmed importJSON of the document that the exportToJSON
\* before it wrote
ExportedThenImported ==
    /\ last.op = "exportToJSON"
    /\ last'.op = "importJSON"
    /\ last'.doc = last.doc
    /\ ConfirmedImport'

\* C23 as stated: exportToJSON followed by a confirmed importJSON of the
\* exported document into the same plan yields courses equal to the courses
\* before and settings equal to the settings before.
C23_Original ==
    [][ ExportedThenImported => courses' = courses /\ settings' = settings ]_vars

\* C23, amended: the round trip yields the courses as before and the settings
\* as before in every key but totalSemesters, which is as before when the
\* settings hold a totalSemesters other than 0 and is 8 otherwise.
C23_RoundTrip ==
    [][ ExportedThenImported
          => /\ courses' = courses
             /\ DOMAIN settings' = (DOMAIN settings) \cup {"totalSemesters"}
             /\ \A k \in (DOMAIN settings) \ {"totalSemesters"} : settings'[k] = settings[k]
             /\ settings'.totalSemesters
                   = IF "totalSemesters" \in DOMAIN settings /\ settings.totalSemesters # 0
                     THEN settings.totalSemesters ELSE 8 ]_vars

\* the export of a stored plan without totalSemesters was imported back: the
\* course and the ceilings are there, and so is a totalSemesters of 8
C23_Witness ==
    /\ last.op = "importJSON"
    /\ last.res = "imported"
    /\ "totalSemesters" \notin DOMAIN last.doc[1].settings
    /\ last.doc[1].courses.array = <<StoredCourse>>
    /\ courses = <<StoredCourse>>
    /\ settings.totalSemesters = 8
    /\ settings.semesterMaxCredits["1"] = 22

\* the lines of the logged CSV export after its header are one row per
\* course, in collection order, of the course's eight fields, each in double
\* quotes, with an empty last field for a course without an assignment
OneQuotedRowPerCourse ==
    LET lines == last.doc[1].lines
    IN  /\ Len(lines) = Len(courses) + 1
        /\ \A i \in DOMAIN courses :
              LET c == courses[i]
              IN  lines[i + 1]
                    = "\"" \o c.id \o "\",\"" \o c.code \o "\",\"" \o c.name \o "\",\""
                        \o c.type \o "\",\"" \o String(c.credits) \o "\",\""
                        \o c.lecturer \o "\",\"" \o String(c.recommendedSemester)
                        \o "\",\""
                        \o (IF c.assignedSemester \in {Null, ""} THEN ""
                            ELSE c.assignedSemester)
                        \o "\""

\* C24 as stated: exportToCSV produces exactly one header row equal to
\* ID,Code,Name,Type,Credits,Lecturer,RecommendedSemester,AssignedSemester
\* followed by exactly one row per course in collection order, every field
\* double-quoted, the assigned-semester field empty for an unassigned course.
C24_Original ==
    last.op = "exportToCSV"
        => /\ last.doc[1].lines[1]
                 = "ID,Code,Name,Type,Credits,Lecturer,RecommendedSemester,AssignedSemester"
           /\ OneQuotedRowPerCourse

\* C24, amended: the header row is
\* ID,Code,Name,Type,Credits,Lecturer,Recommended Semester,Assigned Semester
\* (two of its names hold a space), and the rows are as stated.
C24_HeaderAndRows ==
    last.op = "exportToCSV"
        => /\ last.doc[1].lines[1]
                 = "ID,Code,Name,Type,Credits,Lecturer,Recommended Semester,Assigned Semester"
           /\ OneQuotedRowPerCourse

\* a plan of three courses was exported, an unassigned one among them
C24_Witness ==
    /\ last.op = "exportToCSV"
    /\ Len(courses) = 3
    /\ Len(last.doc[1].lines) = 4
    /\ \E i, j \in DOMAIN courses :
          courses[i].assignedSemester = Null /\ courses[j].assignedSemester # Null

\* the rows of the logged CSV text whose id importCSV synthesized
SynthesizedRows == {k \in DOMAIN LoggedRows : LoggedRows[k].cells[1] = ""}

\* C25: in the course list built by one importCSV batch, an id synthesized
\* for a row with a missing id (current time followed by the row index) never
\* equals the id of another row of the same batch, whether that id was
\* synthesized or supplied by the file.
C25_Original ==
    (last.op = "importCSV" /\ last.res = "imported")
        => \A k \in SynthesizedRows : \A j \in DOMAIN courses :
              j # k => courses[j].id # courses[k].id

\* the ids that one importCSV batch synthesizes are pairwise distinct
SynthesizedIdsDistinct ==
    (last.op = "importCSV" /\ last.res = "imported")
        => \A k, j \in SynthesizedRows : j # k => courses[j].id # courses[k].id

\* the credit total of the semester of the logged read and the ceiling that
\* settings.semesterMaxCredits configures for it
StatusTotal == CreditsAt({i \in DOMAIN courses : courses[i].assignedSemester = last.sem})
StatusCeiling == settings.semesterMaxCredits[last.sem]

\* the logged class is the red, the green or the blue one
IsOver == last.res \in {"text-red-600 dark:text-red-400", "border-red-500 dark:border-red-600"}
IsExact ==
    last.res \in {"text-green-600 dark:text-green-400", "border-green-500 dark:border-green-600"}
IsUnder == last.res \in {"text-blue-600 dark:text-blue-400", "border-blue-500 dark:border-blue-600"}

\* C26: for every semester s of the list, the credit status (getCreditClass and
\* getSemesterBorderClass alike) is OVER iff the credit total of s is greater
\* than the ceiling configured for s in settings.semesterMaxCredits, EXACT iff
\* equal, UNDER iff smaller; with ceiling 20 on semester 2, a total of 20 is
\* EXACT and a total of 21 is OVER, by 1.
C26_StatusByCeiling ==
    last.op \in {"getCreditClass", "getSemesterBorderClass"}
        => /\ last.sem \in DOMAIN settings.semesterMaxCredits
           /\ IsOver <=> StatusTotal > StatusCeiling
           /\ IsExact <=> StatusTotal = StatusCeiling
           /\ IsUnder <=> StatusTotal < StatusCeiling
           /\ (last.sem = "2" /\ StatusCeiling = 20 /\ StatusTotal = 20) => IsExact
           /\ (last.sem = "2" /\ StatusCeiling = 20 /\ StatusTotal = 21)
                 => IsOver /\ StatusTotal - StatusCeiling = 1

\* semester 2 has a ceiling of 20 and holds 8 + 8 + 5 credits: its card has
\* the red border
C26_Witness ==
    /\ last.op = "getSemesterBorderClass"
    /\ last.sem = "2"
    /\ settings.semesterMaxCredits["2"] = 20
    /\ getSemesterCredits(courses, "2") = 21
    /\ last.res = "border-red-500 dark:border-red-600"

-----------------------------------------------------------------------------
(* Ceilings of the listed semesters *)

\* every id of the semester list has an entry in settings.semesterMaxCredits,
\* and getSemesterMaxCredits returns that entry
ListedCeilingsConfigured ==
    \A i \in DOMAIN semesterList :
        /\ "semesterMaxCredits" \in DOMAIN settings
        /\ semesterList[i].id \in DOMAIN settings.semesterMaxCredits
        /\ getSemesterMaxCredits(semesterList[i].id)
              = settings.semesterMaxCredits[semesterList[i].id]

\* C32: after every generateSemesterList, every id in the semester list,
\* regular and antara, has an entry in settings.semesterMaxCredits, so
\* getSemesterMaxCredits returns the configured ceiling of a listed semester
\* and never its fallback of 24. Stated for the call that init makes.
C32_Original == last.op = "init" => ListedCeilingsConfigured

\* the same for the generator called on settings that hold a ceiling map
CeilingsAfterGenerate == last.op = "generateSemesterList" => ListedCeilingsConfigured

-----------------------------------------------------------------------------
(* init and the user (SpecWithUser) *)

\* every course of the collection is still in it after the step
CoursesKept == \A i \in DOMAIN courses : \E j \in DOMAIN courses' : courses'[j] = courses[i]

\* C33: init is atomic with respect to the user's actions: a course that a user
\* action has committed while init awaits the translations or the default data
\* is not overwritten or lost when init goes on after the response, and the
\* user action does not change whether init loads the default data.
C33_Original ==
    [][ /\ last'.op \in {"loadFromLocalStorage", "loadData"} => CoursesKept
        /\ (last'.op = "saveCourse" /\ pc = "start")
              => (hasLocalStorage(lectureStudyPlan') <=> hasLocalStorage(lectureStudyPlan))
      ]_vars

-----------------------------------------------------------------------------
(* Properties of the plan (SpecPlan) *)

\* every course that is placed is placed in a semester of the list
AssignedListed ==
    \A i \in DOMAIN courses :
        courses[i].assignedSemester = Null \/ courses[i].assignedSemester \in ListedIds

-----------------------------------------------------------------------------
(* Properties of the credit total (SpecTotals) *)

\* the sum of getSemesterCredits(s) over the semesters s of the list from
\* position i on
RECURSIVE ListedCreditsFrom(_)
ListedCreditsFrom(i) ==
    IF i > Len(semesterList) THEN 0
    ELSE getSemesterCredits(courses, semesterList[i].id) + ListedCreditsFrom(i + 1)

TotalIsListedSum == totalCreditsTakenValue = ListedCreditsFrom(1)

\* C35: in every reachable state totalCreditsTaken equals the sum of
\* getSemesterCredits(s) over the semesters s of the current semester list: no
\* credits count as taken without appearing in a listed semester.
C35_Original == TotalIsListedSum

\* the operations on the plan, by their log entries
PlanOps == {"saveCourse", "deleteCourse", "assignCourse", "unassignCourse", "autoMapCourses"}

\* the draft of a course that is being edited holds no semester but one of the list
DraftListed ==
    editingCourse # <<>>
        => (newCourse.assignedSemester = Null \/ newCourse.assignedSemester \in ListedIds)

\* C35 as amended: where every course that is placed, and the draft of a
\* course that is being edited, is in a listed semester and the equality holds,
\* an add, update, delete, assign, unassign or autoMap leaves totalCreditsTaken
\* equal to the sum over the listed semesters.
C35_OperationsKeepTotal ==
    [][ (last'.op \in PlanOps /\ AssignedListed /\ DraftListed /\ TotalIsListedSum)
          => TotalIsListedSum' ]_vars

\* a course has just been placed in a semester by assignCourse, every placed
\* course is in a listed semester and the total, which is not 0, is the listed sum
C35_Witness ==
    /\ last.op = "assignCourse"
    /\ last.res = "assigned"
    /\ AssignedListed
    /\ totalCreditsTakenValue > 0
    /\ TotalIsListedSum

-----------------------------------------------------------------------------
(* The semester list and the settings (SpecSession) *)

\* C36: once init is over, and after every later operation, JSON imports with
\* and without settings among them, the semester list is the list that
\* generateSemesterList produces for the current settings.totalSemesters.
C36_ListFollowsSettings ==
    pc \in {"ready", "threw"}
        => semesterList = PushSemesters(1, TotalSemestersOr8(settings), <<>>)

\* init is over and a backup with settings of four semesters has just been
\* imported: the list holds the four semesters and their antara
C36_Witness ==
    /\ pc = "ready"
    /\ last.op = "importJSON"
    /\ last.res = "imported"
    /\ "settings" \in DOMAIN last.doc[1]
    /\ settings.totalSemesters = 4
    /\ Len(semesterList) = 5
    /\ lectureStudyPlan # <<>>
    /\ courses = <<ImportedCourse(2)>>

\* C38: from a collection whose courses all have credits in 1..8, add, update,
\* delete, assign, unassign and autoMap keep the credits of every course in 1..8.
C38_CreditsStayInRange == \A i \in DOMAIN courses : courses[i].credits \in 1..8

\* the update of a course to 0 credits has just been rejected: the modal is
\* still open on the draft
C38_Witness ==
    /\ last.op = "saveCourse"
    /\ last.res = "rejected"
    /\ editingCourse # <<>>
    /\ newCourse.credits = 0
    /\ \E i \in DOMAIN courses :
          courses[i].id = editingCourse[1].id /\ courses[i].credits = 8

-----------------------------------------------------------------------------
(* The ceilings while every confirmation is declined (SpecDeclined) *)

\* no semester of the list holds more credits than its ceiling
NoSemesterOver ==
    \A i \in DOMAIN semesterList :
        getSemesterCredits(courses, semesterList[i].id)
            <= getSemesterMaxCredits(semesterList[i].id)

\* C37: from a plan in which no semester exceeds its ceiling, and with every
\* over-limit confirmation declined, no sequence of add, update, delete, assign
\* and unassign takes the credit total of a semester over its ceiling.
C37_Original == NoSemesterOver

-----------------------------------------------------------------------------
(* Properties of the edit modal (SpecForm) *)

\* the step opens the modal on a course, changes the draft of a course that is
\* being edited, or closes the modal on such a draft
EditSessionStep ==
    \/ last'.op = "other" /\ editingCourse' # <<>>
                          /\ (editingCourse' # editingCourse \/ newCourse' # newCourse)
    \/ last'.op = "closeModal" /\ last'.res \in {"edit", "discarded"}

\* C39: opening the edit modal on a course, changing fields of the draft and
\* closing the modal without saving leave the courses, the caches and the
\* stored record as they were: the draft is a copy of the course.
C39_DraftIsACopy ==
    [][ EditSessionStep => UNCHANGED <<courses, Caches, lectureStudyPlan, lastSaved>> ]_vars

\* the modal has just been closed on a draft that differed from the course it
\* was opened on, and the collection, which has been saved before, still
\* equals the stored record
C39_Witness ==
    /\ last.op = "closeModal"
    /\ last.res = "discarded"
    /\ ~showAddModal
    /\ courses # <<>>
    /\ lectureStudyPlan # <<>>
    /\ lectureStudyPlan[1].courses = courses

-----------------------------------------------------------------------------
(* Termination of init, checked under SpecInitLive *)

\* C30: init always runs to completion: for every outcome of the translation
\* fetch, every content of the stored record (absent, unparseable, or
\* parseable with any subset of fields, e.g. settings without
\* semesterMaxCredits) and every outcome of the default-data fetch, init
\* eventually finishes with the semester list generated for
\* settings.totalSemesters (8 when there is none) and without an uncaught
\* exception.
C30_Original ==
    <>(/\ pc = "ready"
       /\ semesterList = PushSemesters(1, TotalSemestersOr8(settings), <<>>))

\* init ends, by returning or by throwing, whatever the responses are
InitEnds == <>(pc \in {"ready", "threw"})

-----------------------------------------------------------------------------
(* Properties of the store under an exceeded quota, checked under SpecQuota *)

\* C29: when the local-storage write of saveToLocalStorage fails, no exception
\* escapes (the calling operation ends with its outcome), the in-memory
\* mutation of the calling operation stays applied, and the stored record and
\* the in-memory lastSaved keep their previous values.
C29_FailedSaveKeepsRecord ==
    [][ (storageFull /\ last'.op \in {"saveCourse", "deleteCourse", "unassignCourse"}
                     /\ last'.res \notin {"rejected", "declined", "notfound"})
          => /\ UNCHANGED <<lectureStudyPlan, lastSaved>>
             /\ last'.res \in {"added", "deleted", "unassigned"}
             /\ last'.res = "added"
                   => /\ Len(courses') = Len(courses) + 1
                      /\ ~showAddModal'
             /\ last'.res = "deleted" => Len(courses') = Len(courses) - 1
             /\ last'.res = "unassigned" => courses'[last'.idx].assignedSemester = Null
             /\ _cachedUnassigned' = <<>> /\ _cachedTotal' = <<>> ]_vars

\* the course of the stored record was deleted while the storage was full:
\* the record still holds it and lastSaved is the instant of the earlier save
C29_Witness ==
    /\ storageFull
    /\ last.op = "deleteCourse"
    /\ last.res = "deleted"
    /\ courses = <<>>
    /\ lectureStudyPlan # <<>>
    /\ Len(lectureStudyPlan[1].courses) = 1
    /\ lastSaved = <<0>>
    /\ now = 1

-----------------------------------------------------------------------------
(* Properties of the translations, checked under SpecLocale *)

\* C27: two changeLanguage calls whose translation fetches overlap can complete
\* in either order, and no sequencing token discards the stale response: each
\* call that awaits a response can be the next to get it, and a table that
\* arrives is applied whatever the language setting has become. So a state is
\* reachable (C27_Witness) in which all fetches have completed and the applied
\* translations belong to a language other than the current one.
C27_StaleResponseApplied ==
    /\ [](\A i \in DOMAIN localeFetches : ENABLED loadTranslationsOf(i))
    /\ [][ (last'.op = "loadTranslations" /\ last'.res = "ok")
             => /\ DOMAIN translations' = {"app_title", "loading", "data_saved"}
                /\ translations'.app_title = defaults[last'.lang].app_title ]_vars

\* no fetch is awaited, the table is the Japanese file, which only a
\* changeLanguage fetches here, and a later changeLanguage, whose fetch has
\* completed as well, has set another language
C27_Witness ==
    /\ localeFetches = <<>>
    /\ last.op = "loadTranslations"
    /\ last.res = "ok"
    /\ last.lang = "ja"
    /\ translations = LocaleFile("ja")
    /\ language \in {"en", "id"}

\* keys handed to t: three that tables hold and one that none holds
KeyInputs == {"app_title", "loading", "data_saved", "no_such_key"}

\* C28: whenever the locale fetch throws or returns a non-success status,
\* loadTranslations completes without raising and sets translations to the
\* built-in table of the current language (the English table when the
\* language has no built-in table); t(key) then returns the table entry when
\* present and the key itself otherwise.
C28_FallbackTable ==
    [][ (last'.op = "loadTranslations" /\ last'.res \in {"notOk", "threw"})
          => /\ translations' = IF language \in {"en", "id", "ja"} THEN defaults[language]
                                ELSE defaults.en
             /\ pc' = pc
             /\ \A key \in KeyInputs :
                   t(key)' = IF key \in DOMAIN translations' THEN translations'[key]
                             ELSE key ]_vars

\* the fetch for the stored language fr ended with a status that is not a
\* success: t reads the English table
C28_Witness ==
    /\ last.op = "loadTranslations"
    /\ last.res = "notOk"
    /\ last.lang = "fr"
    /\ language = "fr"
    /\ translations = defaults.en
    /\ t("loading") = "Loading..."
    /\ t("data_saved") = "data_saved"

-----------------------------------------------------------------------------
(* Properties of the focus trap (SpecTrap) *)

\* the trap of a modal is active from its activate to its deactivate
TrapActive(modalElement) == modalElement \in DOMAIN handlers

-----------------------------------------------------------------------------
(* Properties of the imports, continued *)

\* importCSV raises its exceptions before it asks for the confirmation, and
\* then leaves the plan and the stored record as they were.
CsvAllOrNothing ==
    [][ (last'.op = "importCSV" /\ last'.res = "rejected")
          => /\ ~last'.asked
             /\ UNCHANGED <<courses, settings, semesterList, lectureStudyPlan,
                            lastSaved, Caches>> ]_vars

====
